---- MODULE Spec2Model ----
(***************************************************************************)
(* Model of the concurrency-safe map of kwstars/gx (package cmap):         *)
(*   - cmap/rwmap/rwmap.go     : sync.RWMutex + built-in map, panics on a  *)
(*                               nil receiver ("rwmap")                    *)
(*   - the nil-tolerant rwMap  : same, with nil-receiver / nil-store       *)
(*                               checks and ensureStore ("rwmapNT")        *)
(*   - cmap/syncmap/syncmap.go : wrapper of sync.Map, Len by iteration     *)
(*                               ("syncmap")                               *)
(* Goroutines are the processes; every method is cut at its lock           *)
(* operations (rwmap) or at the atomic sync.Map primitive (syncmap).       *)
(***************************************************************************)
EXTENDS Integers, Sequences, FiniteSets, TLC

\* ------------------------------------------------------------- bounds
NumProcs == 2
NumKeys == 2
NumVals == 2

Procs == 1..NumProcs
Keys == 1..NumKeys
\* The values of type V; Zero is Go's zero value of V ("var zero V").
Zero == 0
Vals == Zero..(NumVals - 1)

VARIABLES
    backend,    \* which implementation the map reference points to
    mnil,       \* the map reference m is nil
    storeNil,   \* m.store == nil (the built-in map was never made)
    store,      \* the entries: a function from the present keys to values
    mu,         \* sync.RWMutex: writer, active readers, blocked readers
    pc,         \* each goroutine's position
    call,       \* the call a goroutine is executing
    outer,      \* the Range call suspended while its callback runs a Store
    ret,        \* the result of the goroutine's last completed call
    snap,       \* Range's local snapshot (rwmap)
    todo,       \* keys Range has still to visit
    seen,       \* the (key, value) pairs delivered to the callback, in order
    mode,       \* the workload the goroutines run
    vIface,     \* V is an interface type: its zero value is the nil interface
    peer,       \* the entries of a second map, made by another call of New
    calc,       \* package safemath: the last call, its operands and result
    lastMut,    \* history: per key, the value of the Store that last acted on it
    dirty,      \* history: a mutating call overlapped this Len/Range call
    atAcq,      \* history: the entries when Range got the shared lock
    trail,      \* history: the last Len / call / Len of a sequential caller
    lenObs      \* history: live-key observations made during a Len call

cfgVars == <<backend, mnil, mode, vIface, peer, calc>>
mapVars == <<storeNil, store, mu>>
procVars == <<pc, call, outer, ret, snap, todo, seen>>
histVars == <<lastMut, dirty, atAcq, trail, lenObs>>
vars == <<backend, mnil, mode, vIface, peer, calc, storeNil, store, mu, pc, call, outer, ret,
          snap, todo, seen, lastMut, dirty, atAcq, trail, lenObs>>

\* ------------------------------------------------------------- values
Backends == {"rwmap", "rwmapNT", "syncmap"}
IsRW == backend \in {"rwmap", "rwmapNT"}

Call(n, k, v, f) == [name |-> n, key |-> k, val |-> v, fn |-> f]
NoCall == Call("none", 0, Zero, "none")
Ret(v, b) == [val |-> v, ok |-> b]
NoRet == Ret(Zero, FALSE)
Pair(k, v) == [key |-> k, val |-> v]

EmptyMap == [k \in {} |-> Zero]
\* Mutant: an assignment that keeps an existing entry.
PutIfAbsent(s, k, v) ==
    [x \in (DOMAIN s) \cup {k} |-> IF x \in DOMAIN s THEN s[x] ELSE v]
\* m.store[key] = value
Put(s, k, v) == [x \in (DOMAIN s) \cup {k} |-> IF x = k THEN v ELSE s[x]]
\* Mutant: a delete that leaves the entry in place.
DelKeep(s, k) == s
\* delete(m.store, key)
Del(s, k) == [x \in (DOMAIN s) \ {k} |-> s[x]]
\* value, ok = m.store[key]
Get(s, k) == IF k \in DOMAIN s THEN Ret(s[k], TRUE) ELSE Ret(Zero, FALSE)
Pairs(s) == {Pair(k, s[k]) : k \in DOMAIN s}
SeqSet(q) == {q[i] : i \in 1..Len(q)}

Writers == {"Store", "LoadOrStore", "LoadAndDelete", "Delete"}
Readers == {"Load", "Len", "Range"}
\* The key the storing callback writes: m.Store(total+k, v) in the test, a
\* key past the total keys the callers use; the keys a map can hold.
CbKey(k) == NumKeys + k
AllKeys == Keys \cup {CbKey(k) : k \in Keys}

\* A call that may change the entries.
Mutating(c) == c.name \in Writers \/ (c.name = "Range" /\ c.fn = "store")
InFlight(p) == pc[p] \notin {"idle", "done", "panic"}
NoPanic == \A p \in Procs : pc[p] # "panic"

PointCalls ==
    {Call("Load", k, Zero, "none") : k \in Keys}
    \cup {Call("Store", k, v, "none") : k \in Keys, v \in Vals}
    \cup {Call("LoadOrStore", k, v, "none") : k \in Keys, v \in Vals}
    \cup {Call("LoadAndDelete", k, Zero, "none") : k \in Keys}
    \cup {Call("Delete", k, Zero, "none") : k \in Keys}
    \cup {Call("Len", 0, Zero, "none")}
RangeCalls ==
    {Call("Range", 0, Zero, f) : f \in {"nil", "all", "store"}}
    \cup {Call("Range", 0, n, "stop") : n \in 1..NumKeys}

\* ------------------------------------------------------------ history
TopCall(p) == IF outer[p] # NoCall THEN outer[p] ELSE call[p]

\* What the tests keep of the completed calls; each entry is a call, its
\* result and the entries it found. A sequential caller: its last
\* Len / call / Len bracket. Racing goroutines, and the caller whose whole
\* sequence is compared: each one's calls, in order.
TrailAfter(p, c, r) ==
    LET e == [c |-> c, r |-> r, pre |-> store]
    IN  IF mode \in {"race", "log"} THEN [trail EXCEPT ![p] = Append(@, e)]
        ELSE IF mode = "lin"
        THEN [trail EXCEPT ![p][Len(trail[p])].r = r,
                           ![p][Len(trail[p])].done = TRUE]
        ELSE IF mode # "seq" THEN trail
        ELSE IF c.name = "Len"
             THEN IF Len(trail) = 2 THEN <<trail[1], trail[2], e>> ELSE <<e>>
             ELSE IF Len(trail) = 1 THEN <<trail[1], e>>
                  ELSE IF Len(trail) = 3 THEN <<trail[3], e>>
                  ELSE <<>>

\* The history of a concurrent execution: a call is entered when it is
\* invoked, with the number of calls every goroutine had completed by
\* then, and gets its result when it returns.
Completed(q) == Cardinality({i \in 1..Len(trail[q]) : trail[q][i].done})
TrailBegin(p, c) ==
    IF mode = "lin"
    THEN [trail EXCEPT ![p] =
            Append(@, [c |-> c, r |-> NoRet, pre |-> store, done |-> FALSE,
                       before |-> [q \in Procs |-> Completed(q)]])]
    ELSE trail

\* What a Len call in progress could have seen of the new entries s; for
\* a Range call in progress, the pairs and the contents the map has had
\* since the call began.
ObsAfter(s) ==
    IF mode = "sweep"
    THEN [q \in Procs |->
            IF InFlight(q) /\ call[q].name = "Range"
            THEN [pairs |-> lenObs[q].pairs \cup Pairs(s),
                  contents |-> lenObs[q].contents \cup {Pairs(s)}]
            ELSE lenObs[q]]
    ELSE IF mode # "len" THEN lenObs
    ELSE [q \in Procs |->
            IF InFlight(q) /\ call[q].name = "Len"
            THEN [lo |-> lenObs[q].lo \cap DOMAIN s,
                  hi |-> lenObs[q].hi \cup DOMAIN s,
                  counts |-> lenObs[q].counts \cup {Cardinality(DOMAIN s)}]
            ELSE lenObs[q]]
NoObs == [lo |-> {}, hi |-> {}, counts |-> {}]

MutOn(c) ==
    [lastMut EXCEPT ![c.key] = IF c.name = "Store" THEN {c.val} ELSE {}]

\* ----------------------------------------------------- sync.RWMutex
\* m.mu.Unlock(): the readers that arrived behind the writer now hold
\* the shared lock.
Unlocked == [writer |-> {}, readers |-> mu.waiting, waiting |-> {}]
\* Mutant: an Unlock that wakes no blocked reader.
WokenNone == {}
Woken == IF IsRW THEN mu.waiting ELSE {}

\* Mutant: a shared lock that does not wait for the writer.
RLockUnchecked(p) ==
    /\ NoPanic /\ IsRW /\ ~mnil
    /\ pc[p] = "start"
    /\ call[p].name \in Readers
    /\ ~(call[p].name = "Range" /\ call[p].fn = "nil")
    /\ mu' = [mu EXCEPT !.readers = @ \cup {p}]
    /\ pc' = [pc EXCEPT ![p] = "rcs"]
    /\ atAcq' = IF call[p].name = "Range"
                THEN [atAcq EXCEPT ![p] = store] ELSE atAcq
    /\ UNCHANGED <<cfgVars, storeNil, store, call, outer, ret, snap, todo,
                   seen, lastMut, dirty, trail, lenObs>>
\* m.mu.RLock(): blocks behind a pending or active writer.
RLock(p) ==
    /\ NoPanic /\ IsRW /\ ~mnil
    /\ pc[p] = "start"
    /\ call[p].name \in Readers
    /\ ~(call[p].name = "Range" /\ call[p].fn = "nil")
    /\ IF mu.writer # {}
       THEN /\ mu' = [mu EXCEPT !.waiting = @ \cup {p}]
            /\ pc' = [pc EXCEPT ![p] = "rwait"]
            /\ UNCHANGED atAcq
       ELSE /\ mu' = [mu EXCEPT !.readers = @ \cup {p}]
            /\ pc' = [pc EXCEPT ![p] = "rcs"]
            /\ atAcq' = IF call[p].name = "Range"
                        THEN [atAcq EXCEPT ![p] = store] ELSE atAcq
    /\ UNCHANGED <<cfgVars, storeNil, store, call, outer, ret, snap, todo,
                   seen, lastMut, dirty, trail, lenObs>>

\* Mutant: the check-then-act methods take the lock without excluding
\* one another (a shared lock where the exclusive one is needed).
LockShared(p) ==
    /\ NoPanic /\ IsRW /\ ~mnil
    /\ pc[p] = "start"
    /\ call[p].name \in Writers
    /\ mu' = [mu EXCEPT !.writer = @ \cup {p}]
    /\ pc' = [pc EXCEPT ![p] = "wcs"]
    /\ UNCHANGED <<cfgVars, storeNil, store, call, outer, ret, snap, todo,
                   seen, histVars>>
\* m.mu.Lock(): takes the writer mutex, then waits for the active readers.
Lock(p) ==
    /\ NoPanic /\ IsRW /\ ~mnil
    /\ pc[p] = "start"
    /\ call[p].name \in Writers
    /\ mu.writer = {}
    /\ mu' = [mu EXCEPT !.writer = {p}]
    /\ pc' = [pc EXCEPT ![p] = IF mu.readers = {} THEN "wcs" ELSE "wwait"]
    /\ UNCHANGED <<cfgVars, storeNil, store, call, outer, ret, snap, todo,
                   seen, histVars>>

\* The last active reader has left: the pending writer gets the lock.
LockGranted(p) ==
    /\ NoPanic
    /\ pc[p] = "wwait"
    /\ mu.readers = {}
    /\ pc' = [pc EXCEPT ![p] = "wcs"]
    /\ UNCHANGED <<cfgVars, mapVars, call, outer, ret, snap, todo, seen,
                   histVars>>

\* The map holds a key a storing callback added. As in the test, whose
\* last call is the Range with the storing callback, no call is made on a
\* map that has grown: the calls in progress return and the run ends.
Grown == ~(DOMAIN store \subseteq Keys)
\* The storing callback is the test's, run on the mutex backends and by
\* one goroutine at a time: the keys it adds stay within AllKeys.
StoreBack ==
    /\ IsRW
    /\ \A q \in Procs : InFlight(q) => TopCall(q).fn # "store"

\* --------------------------------------------------------- the calls
Invoke(p, c) ==
    /\ NoPanic
    /\ pc[p] \in {"idle", "done"}
    /\ ~Grown
    /\ c.fn = "store" => StoreBack
    /\ pc' = [pc EXCEPT ![p] = "start"]
    /\ call' = [call EXCEPT ![p] = c]
    /\ ret' = [ret EXCEPT ![p] = NoRet]
    /\ snap' = [snap EXCEPT ![p] = EmptyMap]
    /\ todo' = [todo EXCEPT ![p] = {}]
    /\ seen' = [seen EXCEPT ![p] = <<>>]
    /\ atAcq' = [atAcq EXCEPT ![p] = EmptyMap]
    /\ dirty' = [q \in Procs |->
                   IF q = p
                   THEN /\ c.name \in {"Len", "Range"}
                        /\ \E r \in Procs \ {p} :
                              InFlight(r) /\ Mutating(TopCall(r))
                   ELSE IF /\ Mutating(c) /\ InFlight(q)
                           /\ TopCall(q).name \in {"Len", "Range"}
                        THEN TRUE ELSE dirty[q]]
    /\ lenObs' = [lenObs EXCEPT ![p] =
                    IF mode = "len" /\ c.name = "Len"
                    THEN [lo |-> DOMAIN store, hi |-> DOMAIN store,
                          counts |-> {Cardinality(DOMAIN store)}]
                    ELSE IF mode = "sweep" /\ c.name = "Range"
                    THEN [pairs |-> Pairs(store), contents |-> {Pairs(store)}]
                    ELSE NoObs]
    /\ trail' = TrailBegin(p, c)
    /\ UNCHANGED <<cfgVars, mapVars, outer, lastMut>>

\* Mutant: LoadOrStore on a nil map returns the zero value, not its argument.
NilResultZero(c) ==
    CASE c.name = "Len" -> Ret(0, TRUE)
      [] OTHER -> Ret(Zero, FALSE)
\* A method called on a nil map reference: rwmap.go dereferences m (a
\* panic ends the program); the other two return the zero-effect result.
NilResult(c) ==
    CASE c.name = "LoadOrStore" -> Ret(c.val, FALSE)
      [] c.name = "Len" -> Ret(0, TRUE)
      [] OTHER -> Ret(Zero, FALSE)
NilReceiver(p) ==
    /\ NoPanic /\ mnil
    /\ pc[p] = "start"
    /\ ~(backend = "rwmap" /\ call[p].name = "Range" /\ call[p].fn = "nil")
    /\ IF backend = "rwmap"
       THEN /\ pc' = [pc EXCEPT ![p] = "panic"]
            /\ UNCHANGED <<ret, trail>>
       ELSE /\ pc' = [pc EXCEPT ![p] = "done"]
            /\ ret' = [ret EXCEPT ![p] = NilResult(call[p])]
            /\ trail' = TrailAfter(p, call[p], NilResult(call[p]))
    /\ UNCHANGED <<cfgVars, mapVars, call, outer, snap, todo, seen,
                   lastMut, dirty, atAcq, lenObs>>

\* The end of a reading method: RUnlock (rwmap) and return r.
ReadReady(p, n) ==
    /\ NoPanic /\ ~mnil
    /\ call[p].name = n
    /\ pc[p] = IF IsRW THEN "rcs" ELSE "start"
\* Mutant: a reading method that returns without RUnlock.
ReadDoneLocked(p, r) ==
    /\ mu' = mu
    /\ pc' = [pc EXCEPT ![p] = "done"]
    /\ ret' = [ret EXCEPT ![p] = r]
    /\ trail' = TrailAfter(p, call[p], r)
    /\ UNCHANGED <<cfgVars, storeNil, store, call, outer, snap, todo, seen,
                   lastMut, dirty, atAcq, lenObs>>
ReadDone(p, r) ==
    /\ mu' = IF IsRW THEN [mu EXCEPT !.readers = @ \ {p}] ELSE mu
    /\ pc' = [pc EXCEPT ![p] = "done"]
    /\ ret' = [ret EXCEPT ![p] = r]
    /\ trail' = TrailAfter(p, call[p], r)
    /\ UNCHANGED <<cfgVars, storeNil, store, call, outer, snap, todo, seen,
                   lastMut, dirty, atAcq, lenObs>>

\* The end of a writing method: the entries become s, Unlock (rwmap) and
\* return r. A Store made by Range's callback returns into the iteration.
WriteReady(p, n, at) ==
    /\ NoPanic /\ ~mnil
    /\ call[p].name = n
    /\ pc[p] = IF IsRW THEN at ELSE "start"
\* The first statement of a check-then-act method of the mutex backends,
\* under the exclusive lock: existing, ok := m.store[key] (after
\* ensureStore, when the method calls it).
Probe(p, n, made) ==
    /\ NoPanic /\ IsRW /\ ~mnil
    /\ call[p].name = n
    /\ pc[p] = "wcs"
    /\ pc' = [pc EXCEPT ![p] = "probed"]
    /\ ret' = [ret EXCEPT ![p] = Get(store, call[p].key)]
    /\ storeNil' = (storeNil /\ ~made)
    /\ UNCHANGED <<cfgVars, store, mu, call, outer, snap, todo, seen,
                   histVars>>
\* What the probe found: the locals of the mutex backends, the primitive's
\* own atomic lookup in syncmap.
Found(p) == IF IsRW THEN ret[p] ELSE Get(store, call[p].key)
\* syncmap hands back what sync.Map returned through the type assertion
\* raw.(V). The assertion holds unless raw is the nil interface, which is
\* what sync.Map holds for the zero value of an interface type V.
Typed(v) == IF IsRW \/ ~vIface THEN TRUE ELSE v # Zero
\* raw.(V) on a nil interface: a run-time panic. Load asserts the value it
\* found, LoadOrStore the value found or else just stored, LoadAndDelete
\* the value just removed.
AssertPanic(p) ==
    /\ NoPanic /\ ~mnil /\ ~IsRW
    /\ pc[p] = "start"
    /\ call[p].name \in {"Load", "LoadOrStore", "LoadAndDelete"}
    /\ LET k == call[p].key
           raw == IF Found(p).ok THEN Found(p).val ELSE call[p].val
       IN  /\ ~Found(p).ok => call[p].name = "LoadOrStore"
           /\ ~Typed(raw)
           /\ store' = IF call[p].name = "LoadOrStore" /\ ~Found(p).ok
                       THEN Put(store, k, call[p].val)
                       ELSE IF call[p].name = "LoadAndDelete"
                            THEN Del(store, k) ELSE store
    /\ pc' = [pc EXCEPT ![p] = "panic"]
    /\ UNCHANGED <<cfgVars, storeNil, mu, call, outer, ret, snap, todo, seen,
                   histVars>>
WriteDone(p, s, r) ==
    LET nested == outer[p] # NoCall
        next == IF nested /\ todo[p] # {} THEN "iter" ELSE "done"
    IN  /\ store' = s
        /\ mu' = IF IsRW THEN Unlocked ELSE mu
        /\ pc' = [q \in Procs |->
                    IF q = p THEN next
                    ELSE IF q \in Woken THEN "rcs" ELSE pc[q]]
        /\ atAcq' = [q \in Procs |->
                       IF q \in Woken /\ call[q].name = "Range"
                       THEN s ELSE atAcq[q]]
        /\ call' = IF nested THEN [call EXCEPT ![p] = outer[p]] ELSE call
        /\ outer' = [outer EXCEPT ![p] = NoCall]
        /\ ret' = IF nested THEN ret ELSE [ret EXCEPT ![p] = r]
        /\ trail' = IF ~nested THEN TrailAfter(p, call[p], r)
                    ELSE IF next = "done" THEN TrailAfter(p, outer[p], ret[p])
                    ELSE trail
        /\ lastMut' = MutOn(call[p])
        /\ lenObs' = ObsAfter(s)
        /\ UNCHANGED <<cfgVars, snap, todo, seen, dirty>>

\* Mutant: a Load that removes the entry it returns.
LoadTakes(p) ==
    /\ ReadReady(p, "Load")
    /\ store' = Del(store, call[p].key)
    /\ mu' = IF IsRW THEN [mu EXCEPT !.readers = @ \ {p}] ELSE mu
    /\ pc' = [pc EXCEPT ![p] = "done"]
    /\ ret' = [ret EXCEPT ![p] = Get(store, call[p].key)]
    /\ trail' = TrailAfter(p, call[p], Get(store, call[p].key))
    /\ UNCHANGED <<cfgVars, storeNil, call, outer, snap, todo, seen,
                   lastMut, dirty, atAcq, lenObs>>
\* Load
Load(p) ==
    /\ ReadReady(p, "Load")
    /\ Get(store, call[p].key).ok => Typed(store[call[p].key])
    /\ ReadDone(p, Get(store, call[p].key))

\* Mutant: a Store that leaves a present key's value alone.
StoreNoOverwrite(p) ==
    /\ WriteReady(p, "Store", "wcs")
    /\ storeNil' = FALSE
    /\ WriteDone(p, IF call[p].key \in DOMAIN store THEN store
                    ELSE Put(store, call[p].key, call[p].val), NoRet)
\* Store; ensureStore makes the built-in map when it is nil.
Store(p) ==
    /\ WriteReady(p, "Store", "wcs")
    /\ storeNil' = FALSE
    /\ WriteDone(p, Put(store, call[p].key, call[p].val), NoRet)

\* Mutant: a LoadOrStore that stores even when the key is present.
LoadOrStoreAlways(p) ==
    /\ WriteReady(p, "LoadOrStore", "probed")
    /\ storeNil' = FALSE
    /\ WriteDone(p, Put(store, call[p].key, call[p].val),
                 IF Found(p).ok THEN Ret(Found(p).val, TRUE)
                 ELSE Ret(call[p].val, FALSE))
\* LoadOrStore
LoadOrStoreProbe(p) == Probe(p, "LoadOrStore", TRUE)
LoadOrStore(p) ==
    /\ WriteReady(p, "LoadOrStore", "probed")
    /\ Typed(IF Found(p).ok THEN Found(p).val ELSE call[p].val)
    /\ storeNil' = FALSE
    /\ IF Found(p).ok
       THEN WriteDone(p, store, Ret(Found(p).val, TRUE))
       ELSE WriteDone(p, Put(store, call[p].key, call[p].val),
                      Ret(call[p].val, FALSE))

\* Mutant: a LoadAndDelete that loads and forgets to delete.
LoadAndKeep(p) ==
    /\ WriteReady(p, "LoadAndDelete", "probed")
    /\ UNCHANGED storeNil
    /\ WriteDone(p, store, Found(p))
\* Mutant: a LoadAndDelete that calls ensureStore like LoadOrStore does.
LoadAndDeleteMakes(p) == Probe(p, "LoadAndDelete", TRUE)
\* LoadAndDelete
LoadAndDeleteProbe(p) == Probe(p, "LoadAndDelete", FALSE)
LoadAndDelete(p) ==
    /\ WriteReady(p, "LoadAndDelete", "probed")
    /\ Found(p).ok => Typed(Found(p).val)
    /\ UNCHANGED storeNil
    /\ IF Found(p).ok
       THEN WriteDone(p, Del(store, call[p].key), Found(p))
       ELSE WriteDone(p, store, Found(p))

\* Mutant: a Delete that drops every entry.
DeleteClears(p) ==
    /\ WriteReady(p, "Delete", "wcs")
    /\ UNCHANGED storeNil
    /\ WriteDone(p, EmptyMap, NoRet)
\* Delete
Delete(p) ==
    /\ WriteReady(p, "Delete", "wcs")
    /\ UNCHANGED storeNil
    /\ WriteDone(p, Del(store, call[p].key), NoRet)

\* Mutant: a Len that reports the capacity, not the live entries.
LenCapacity(p) ==
    /\ IsRW
    /\ ReadReady(p, "Len")
    /\ ReadDone(p, Ret(NumKeys, TRUE))
\* Len of the mutex backends: len(m.store) under the shared lock.
Len_(p) ==
    /\ IsRW
    /\ ReadReady(p, "Len")
    /\ ReadDone(p, Ret(Cardinality(DOMAIN store), TRUE))

\* Range of the mutex backends, first half: the fn == nil return.
RangeNilFn(p) ==
    /\ NoPanic /\ IsRW
    /\ ~mnil \/ backend = "rwmap"
    /\ pc[p] = "start"
    /\ call[p].name = "Range" /\ call[p].fn = "nil"
    /\ pc' = [pc EXCEPT ![p] = "done"]
    /\ trail' = TrailAfter(p, call[p], NoRet)
    /\ UNCHANGED <<cfgVars, mapVars, call, outer, ret, snap, todo, seen,
                   lastMut, dirty, atAcq, lenObs>>

\* Mutant: the shared lock is kept while the callbacks run.
RangeSnapshotLocked(p) ==
    /\ IsRW
    /\ ReadReady(p, "Range")
    /\ snap' = [snap EXCEPT ![p] = store]
    /\ todo' = [todo EXCEPT ![p] = DOMAIN store]
    /\ mu' = IF DOMAIN store = {} THEN [mu EXCEPT !.readers = @ \ {p}]
             ELSE mu
    /\ pc' = [pc EXCEPT ![p] = IF DOMAIN store = {} THEN "done" ELSE "iter"]
    /\ trail' = IF DOMAIN store = {} THEN TrailAfter(p, call[p], NoRet)
                ELSE trail
    /\ UNCHANGED <<cfgVars, storeNil, store, call, outer, ret, seen,
                   lastMut, dirty, atAcq, lenObs>>
\* Range of the mutex backends: copy the entries under the shared lock,
\* RUnlock. The slice's order is the built-in map's iteration order, which
\* Go leaves unspecified: the order is chosen when an entry is delivered.
RangeSnapshot(p) ==
    /\ IsRW
    /\ ReadReady(p, "Range")
    /\ snap' = [snap EXCEPT ![p] = store]
    /\ todo' = [todo EXCEPT ![p] = DOMAIN store]
    /\ mu' = [mu EXCEPT !.readers = @ \ {p}]
    /\ pc' = [pc EXCEPT ![p] = IF DOMAIN store = {} THEN "done" ELSE "iter"]
    /\ trail' = IF DOMAIN store = {} THEN TrailAfter(p, call[p], NoRet)
                ELSE trail
    /\ UNCHANGED <<cfgVars, storeNil, store, call, outer, ret, seen,
                   lastMut, dirty, atAcq, lenObs>>

\* Mutant: an iteration that never reaches the last key.
SyncRangePartial(p) ==
    /\ NoPanic /\ ~mnil
    /\ backend = "syncmap"
    /\ pc[p] = "start"
    /\ call[p].name \in {"Range", "Len"}
    /\ todo' = [todo EXCEPT ![p] = Keys \ {NumKeys}]
    /\ pc' = [pc EXCEPT ![p] = "iter"]
    /\ ret' = [ret EXCEPT ![p] =
                 IF call[p].name = "Len" THEN Ret(0, TRUE) ELSE NoRet]
    /\ UNCHANGED <<cfgVars, mapVars, call, outer, snap, seen, histVars>>
\* Range and Len of syncmap: m.store.Range visits every key at most once
\* and reads each key's mapping at some instant of the call.
SyncRange(p) ==
    /\ NoPanic /\ ~mnil
    /\ backend = "syncmap"
    /\ pc[p] = "start"
    /\ call[p].name \in {"Range", "Len"}
    /\ todo' = [todo EXCEPT ![p] = Keys]
    /\ pc' = [pc EXCEPT ![p] = "iter"]
    /\ ret' = [ret EXCEPT ![p] =
                 IF call[p].name = "Len" THEN Ret(0, TRUE) ELSE NoRet]
    /\ UNCHANGED <<cfgVars, mapVars, call, outer, snap, seen, histVars>>

\* Mutant: an iteration that also visits deleted entries.
PresentAlways(p, k) == TRUE
\* Mutant: the callback is handed the map's current value of the key, not
\* the copied one.
ValueLive(p, k) ==
    IF k \in DOMAIN store THEN store[k] ELSE snap[p][k]
\* The entry Range delivers for key k: the snapshot's (rwmap), the
\* current one (syncmap).
Present(p, k) == IF IsRW THEN k \in DOMAIN snap[p] ELSE k \in DOMAIN store
Value(p, k) == IF IsRW THEN snap[p][k] ELSE store[k]

\* Mutant: an iteration that does not move past the key it visits.
VisitingAgain(p, k) ==
    /\ NoPanic
    /\ pc[p] = "iter"
    /\ k \in todo[p]
    /\ todo' = todo
Visiting(p, k) ==
    /\ NoPanic
    /\ pc[p] = "iter"
    /\ k \in todo[p]
    /\ todo' = [todo EXCEPT ![p] = @ \ {k}]

\* syncmap: a key with no entry when the iteration reaches it.
RangeSkip(p) ==
    \E k \in AllKeys :
        /\ Visiting(p, k)
        /\ ~Present(p, k)
        /\ pc' = [pc EXCEPT ![p] = IF todo'[p] = {} THEN "done" ELSE "iter"]
        /\ trail' = IF todo'[p] = {} THEN TrailAfter(p, call[p], ret[p])
                    ELSE trail
        /\ UNCHANGED <<cfgVars, mapVars, call, outer, ret, snap, seen,
                       lastMut, dirty, atAcq, lenObs>>

\* Mutant: a counting callback that returns false.
LenCountStops(p) ==
    \E k \in AllKeys :
        /\ Visiting(p, k)
        /\ call[p].name = "Len"
        /\ Present(p, k)
        /\ ret' = [ret EXCEPT ![p] = Ret(ret[p].val + 1, TRUE)]
        /\ pc' = [pc EXCEPT ![p] = "done"]
        /\ trail' = TrailAfter(p, call[p], Ret(ret[p].val + 1, TRUE))
        /\ UNCHANGED <<cfgVars, mapVars, call, outer, snap, seen,
                       lastMut, dirty, atAcq, lenObs>>
\* Len of syncmap: the callback count++; return true.
LenCount(p) ==
    \E k \in AllKeys :
        /\ Visiting(p, k)
        /\ call[p].name = "Len"
        /\ Present(p, k)
        /\ Typed(Value(p, k))
        /\ ret' = [ret EXCEPT ![p] = Ret(ret[p].val + 1, TRUE)]
        /\ pc' = [pc EXCEPT ![p] = IF todo'[p] = {} THEN "done" ELSE "iter"]
        /\ trail' = IF todo'[p] = {}
                    THEN TrailAfter(p, call[p], Ret(ret[p].val + 1, TRUE))
                    ELSE trail
        /\ UNCHANGED <<cfgVars, mapVars, call, outer, snap, seen,
                       lastMut, dirty, atAcq, lenObs>>

\* Mutant: the loop ignores what the callback returns.
RangeCallbackNoBreak(p) ==
    \E k \in AllKeys :
        /\ Visiting(p, k)
        /\ call[p].name = "Range" /\ call[p].fn \in {"all", "stop"}
        /\ Present(p, k)
        /\ seen' = [seen EXCEPT ![p] = Append(@, Pair(k, Value(p, k)))]
        /\ pc' = [pc EXCEPT ![p] = IF todo'[p] # {} THEN "iter" ELSE "done"]
        /\ trail' = IF todo'[p] # {} THEN trail
                    ELSE TrailAfter(p, call[p], NoRet)
        /\ UNCHANGED <<cfgVars, mapVars, call, outer, ret, snap,
                       lastMut, dirty, atAcq, lenObs>>
\* fn(item.key, item.val) for a callback that only records: "all" returns
\* true, "stop" returns len(seen) < n.
RangeCallback(p) ==
    \E k \in AllKeys :
        /\ Visiting(p, k)
        /\ call[p].name = "Range" /\ call[p].fn \in {"all", "stop"}
        /\ Present(p, k)
        /\ Typed(Value(p, k))
        /\ seen' = [seen EXCEPT ![p] = Append(@, Pair(k, Value(p, k)))]
        /\ LET more == call[p].fn = "all" \/ Len(seen'[p]) < call[p].val
           IN  /\ pc' = [pc EXCEPT ![p] =
                           IF more /\ todo'[p] # {} THEN "iter" ELSE "done"]
               /\ trail' = IF more /\ todo'[p] # {} THEN trail
                           ELSE TrailAfter(p, call[p], NoRet)
        /\ UNCHANGED <<cfgVars, mapVars, call, outer, ret, snap,
                       lastMut, dirty, atAcq, lenObs>>

\* fn(item.key, item.val) for the callback that calls m.Store on the same
\* map and returns true.
RangeCallbackStore(p) ==
    \E k \in AllKeys :
        /\ Visiting(p, k)
        /\ call[p].name = "Range" /\ call[p].fn = "store"
        /\ Present(p, k)
        /\ Typed(Value(p, k))
        /\ seen' = [seen EXCEPT ![p] = Append(@, Pair(k, Value(p, k)))]
        /\ outer' = [outer EXCEPT ![p] = call[p]]
        /\ call' = [call EXCEPT ![p] =
                      Call("Store", CbKey(k), Value(p, k), "none")]
        /\ pc' = [pc EXCEPT ![p] = "start"]
        /\ UNCHANGED <<cfgVars, mapVars, ret, snap, histVars>>

\* syncmap calls fn without a nil check: calling a nil func panics.
RangeNilCallback(p) ==
    \E k \in AllKeys :
        /\ Visiting(p, k)
        /\ call[p].name = "Range" /\ call[p].fn = "nil"
        /\ Present(p, k)
        /\ pc' = [pc EXCEPT ![p] = "panic"]
        /\ UNCHANGED <<cfgVars, mapVars, call, outer, ret, snap, seen,
                       histVars>>

\* syncmap's iteration hands every entry to fn(k.(K), v.(V)), Len's
\* counting callback included: the assertion panics on a nil interface.
RangeAssertPanic(p) ==
    \E k \in AllKeys :
        /\ Visiting(p, k)
        /\ ~IsRW
        /\ Present(p, k)
        /\ ~Typed(Value(p, k))
        /\ pc' = [pc EXCEPT ![p] = "panic"]
        /\ UNCHANGED <<cfgVars, mapVars, call, outer, ret, snap, seen,
                       histVars>>

\* Mutant: New hands out one package-level map, so a call on the second
\* instance acts on the entries of the first.
PeerCallShared(c) ==
    /\ NoPanic
    /\ mu.writer = {} /\ mu.readers = {}
    /\ store' = IF c.name = "Store" THEN Put(store, c.key, c.val)
                ELSE Del(store, c.key)
    /\ UNCHANGED <<cfgVars, storeNil, mu, procVars, histVars>>
\* A whole Store or Delete call on the second instance: New allocates a
\* struct of its own for every map, so the call works on that map's store
\* behind that map's lock.
PeerCall(c) ==
    /\ NoPanic
    /\ peer' = IF c.name = "Store" THEN Put(peer, c.key, c.val)
               ELSE Del(peer, c.key)
    /\ UNCHANGED <<backend, mnil, mode, vIface, calc, mapVars, procVars,
                   histVars>>

\* ------------------------------------------------- package safemath
\* The integer types: Bits is the widest width modelled. A type is signed
\* or unsigned, Bits - 1 or Bits wide, and either predeclared (int8,
\* uint8, ...) or a defined type with such an underlying type, which the
\* constraints ~int8 | ~uint8 | ... admit.
Bits == 3
Widths == {Bits - 1, Bits}
Types == [signed : BOOLEAN, bits : Widths, named : BOOLEAN]
MinOf(t) == IF t.signed THEN -(2 ^ (t.bits - 1)) ELSE 0
MaxOf(t) == IF t.signed THEN 2 ^ (t.bits - 1) - 1 ELSE 2 ^ t.bits - 1
ValuesOf(t) == MinOf(t)..MaxOf(t)
\* Two's-complement wrap-around of the mathematical integer x into type t.
Wrap(x, t) ==
    LET r == x % (2 ^ t.bits)
    IN  IF t.signed /\ r >= 2 ^ (t.bits - 1) THEN r - 2 ^ t.bits ELSE r
\* Go's integer division truncates toward zero.
Quo(x, y) ==
    IF (x >= 0) = (y > 0)
    THEN (IF x >= 0 THEN x ELSE -x) \div (IF y > 0 THEN y ELSE -y)
    ELSE -((IF x >= 0 THEN x ELSE -x) \div (IF y > 0 THEN y ELSE -y))
\* switch any(a).(type) { case int, int8, int16, int32, int64: ... }: the
\* dynamic type of a defined type is not one of the listed types.
SignedCase(t) == t.signed /\ ~t.named
UnsignedCase(t) == ~t.signed /\ ~t.named
\* maxValue / minValue: the type switch's fall-through returns zero.
maxValue(t) == IF t.named THEN 0 ELSE MaxOf(t)
minValue(t) == IF SignedCase(t) THEN MinOf(t) ELSE 0

Out(v, e) == [val |-> v, err |-> e]
Add(a, b, t) ==
    LET result == Wrap(a + b, t)
    IN  IF SignedCase(t)
        THEN IF b > 0 /\ a > Wrap(maxValue(t) - b, t)
             THEN Out(0, "ErrOverflow")
             ELSE IF b < 0 /\ a < Wrap(minValue(t) - b, t)
                  THEN Out(0, "ErrUnderflow")
                  ELSE Out(result, "nil")
        ELSE IF result < a THEN Out(0, "ErrOverflow") ELSE Out(result, "nil")
Sub(a, b, t) ==
    LET result == Wrap(a - b, t)
    IN  IF SignedCase(t)
        THEN IF b < 0 /\ a > Wrap(maxValue(t) + b, t)
             THEN Out(0, "ErrOverflow")
             ELSE IF b > 0 /\ a < Wrap(minValue(t) + b, t)
                  THEN Out(0, "ErrUnderflow")
                  ELSE Out(result, "nil")
        ELSE IF result > a THEN Out(0, "ErrUnderflow") ELSE Out(result, "nil")
Mul(a, b, t) ==
    LET result == Wrap(a * b, t)
    IN  IF a = 0 \/ b = 0 THEN Out(0, "nil")
        ELSE IF Wrap(Quo(result, b), t) # a
             THEN IF SignedCase(t)
                  THEN IF (a > 0 /\ b > 0) \/ (a < 0 /\ b < 0)
                       THEN Out(0, "ErrOverflow")
                       ELSE Out(0, "ErrUnderflow")
                  ELSE Out(0, "ErrOverflow")
             ELSE Out(result, "nil")
\* Div: the minimum / -1 check sits in the same type switch; a / b.
Div(a, b, t) ==
    IF b = 0 THEN Out(0, "ErrDivisionByZero")
    ELSE IF SignedCase(t) /\ a = minValue(t) /\ b = Wrap(0 - 1, t)
         THEN Out(0, "ErrOverflow")
         ELSE Out(Wrap(Quo(a, b), t), "nil")
\* Mod: a % b, the remainder of the truncating division.
Mod(a, b, t) ==
    IF b = 0 THEN Out(0, "ErrDivisionByZero")
    ELSE Out(Wrap(a - b * Quo(a, b), t), "nil")
Cast(value, from, to) ==
    LET result == Wrap(value, to)
    IN  IF Wrap(result, from) # value THEN Out(0, "ErrOverflow")
        ELSE IF SignedCase(from) /\ value < 0 /\ UnsignedCase(to)
             THEN Out(0, "ErrUnderflow")
             ELSE Out(result, "nil")

NoCalc == [op |-> "none"]
\* One call of a safemath function, with operands of its type.
CallArith(op) ==
    /\ mode = "math"
    /\ \E t \in Types : \E a, b \in ValuesOf(t) :
          calc' = [op |-> op, t |-> t, a |-> a, b |-> b,
                   out |-> CASE op = "Add" -> Add(a, b, t)
                             [] op = "Sub" -> Sub(a, b, t)
                             [] op = "Div" -> Div(a, b, t)
                             [] op = "Mod" -> Mod(a, b, t)
                             [] OTHER -> Mul(a, b, t)]
    /\ UNCHANGED <<backend, mnil, mode, vIface, peer, mapVars, procVars,
                   histVars>>
CallCast ==
    /\ mode = "math"
    /\ \E from, to \in Types : \E value \in ValuesOf(from) :
          calc' = [op |-> "Cast", from |-> from, to |-> to, value |-> value,
                   out |-> Cast(value, from, to)]
    /\ UNCHANGED <<backend, mnil, mode, vIface, peer, mapVars, procVars,
                   histVars>>

\* --------------------------------------------------- package slicex
\* A slice []T: arr is the backing array from the slice's first element to
\* its capacity, len the slice's length.
MaxLen == 4
Elems == Zero..NumVals
Arrays == UNION {[1..n -> Elems] : n \in 0..MaxLen}
Slice(a, n) == [arr |-> a, len |-> n]
Slices == UNION {{Slice(a, n) : n \in 0..Len(a)} : a \in Arrays}
Cap(s) == Len(s.arr)
\* The elements s[0], ..., s[len(s)-1].
Elements(s) == SubSeq(s.arr, 1, s.len)
\* s[lo:] and s[:hi:hi]
From(s, lo) == Slice(SubSeq(s.arr, lo + 1, Cap(s)), s.len - lo)
UpTo(s, hi) == Slice(SubSeq(s.arr, 1, hi), hi)

\* for size < len(s) { s, batches = s[size:], append(batches, s[:size:size]) }
\* return append(batches, s)
RECURSIVE BatchLoop(_, _, _)
BatchLoop(s, size, batches) ==
    IF size < s.len
    THEN BatchLoop(From(s, size), size, Append(batches, UpTo(s, size)))
    ELSE Append(batches, s)
NilBatches == [nil |-> TRUE, batches |-> <<>>, panic |-> FALSE]
\* The largest int (of a 32-bit build; a 64-bit int wraps the same way).
MaxInt == 2147483647
\* (len(s)+size-1)/size in int arithmetic, for size > 0: the sum wraps past
\* MaxInt to len(s)+size-1-2^32, and the quotient truncates toward zero.
BatchCap(n, size) ==
    IF size - 1 <= MaxInt - n THEN (n + size - 1) \div size
    ELSE LET sum == (((size - MaxInt) + (n - 1)) - MaxInt) - 2
         IN  (sum \div size) + (IF sum % size = 0 THEN 0 ELSE 1)
\* Batch; make([][]T, 0, cap) panics on a negative cap ("makeslice: cap
\* out of range").
Batch(s, size) ==
    IF size <= 0 \/ s.len = 0 THEN NilBatches
    ELSE IF BatchCap(s.len, size) < 0
    THEN [nil |-> FALSE, batches |-> <<>>, panic |-> TRUE]
    ELSE [nil |-> FALSE, batches |-> BatchLoop(s, size, <<>>),
          panic |-> FALSE]

\* Mutant: the tail is moved down and the vacated positions keep their
\* old elements.
CutNoZero(s, i, j) ==
    IF i < 0 \/ j > s.len \/ i > j
    THEN [s |-> s, err |-> "ErrIndexOutOfRange"]
    ELSE LET moved == [k \in 1..Cap(s) |->
                         IF k > i /\ k <= i + (s.len - j)
                         THEN s.arr[k + (j - i)] ELSE s.arr[k]]
         IN  [s |-> Slice(moved, s.len - (j - i)), err |-> "nil"]
\* Cut: copy(s[i:], s[j:]), zero s[len(s)-j+i : len(s)], return
\* s[:len(s)-(j-i)].
Cut(s, i, j) ==
    IF i < 0 \/ j > s.len \/ i > j
    THEN [s |-> s, err |-> "ErrIndexOutOfRange"]
    ELSE LET moved == [k \in 1..Cap(s) |->
                         IF k > i /\ k <= i + (s.len - j)
                         THEN s.arr[k + (j - i)] ELSE s.arr[k]]
             zeroed == [k \in 1..Cap(s) |->
                          IF k > s.len - j + i /\ k <= s.len
                          THEN Zero ELSE moved[k]]
         IN  [s |-> Slice(zeroed, s.len - (j - i)), err |-> "nil"]

\* The arguments of one call of a slicex function; sizes and indices run
\* one past the valid range on either side.
Indices == (0 - 1)..(MaxLen + 1)
\* Sizes and first indices: the small ones and the largest ints.
Sizes == Indices \cup {MaxInt - 1, MaxInt}
SliceArgs == {[op |-> "args", s |-> s, i |-> i, j |-> j] :
                 s \in Slices, i \in Sizes, j \in Indices}
CallBatch ==
    /\ mode = "slice"
    /\ calc.op = "args"
    /\ calc' = [op |-> "Batch", s |-> calc.s, size |-> calc.i,
                out |-> Batch(calc.s, calc.i)]
    /\ UNCHANGED <<backend, mnil, mode, vIface, peer, mapVars, procVars,
                   histVars>>
CallCut ==
    /\ mode = "slice"
    /\ calc.op = "args"
    /\ calc' = [op |-> "Cut", s |-> calc.s, i |-> calc.i, j |-> calc.j,
                out |-> Cut(calc.s, calc.i, calc.j)]
    /\ UNCHANGED <<backend, mnil, mode, vIface, peer, mapVars, procVars,
                   histVars>>

\* ---------------------------------------------------- package randx
\* The items handed to New: item i carries value i and a weight that
\* weightFunc returns, which New's contract asks to be non-negative.
MaxWeight == 2
Item(v, w) == [value |-> v, weight |-> w]
ZeroItem == Item(0, 0)
ItemLists ==
    UNION {{[i \in 1..n |-> Item(i, ws[i])] : ws \in [1..n -> 0..MaxWeight]} :
              n \in 0..MaxLen}
\* New: sum += weight; p.prefixSums[i] = sum
RECURSIVE PrefixSums(_)
PrefixSums(items) ==
    IF items = <<>> THEN <<>>
    ELSE LET front == PrefixSums(SubSeq(items, 1, Len(items) - 1))
             last == IF front = <<>> THEN 0 ELSE front[Len(front)]
         IN  Append(front, last + items[Len(items)].weight)
New(items) ==
    LET sums == PrefixSums(items)
    IN  [items |-> items, prefixSums |-> sums,
         totalWeight |-> IF sums = <<>> THEN 0 ELSE sums[Len(sums)]]
\* sort.SearchInts(a, x): the binary search of sort.Search on [i, j), with
\* 0-based indices.
RECURSIVE Search(_, _, _, _)
Search(a, x, i, j) ==
    IF i < j
    THEN LET h == (i + j) \div 2
         IN  IF a[h + 1] >= x THEN Search(a, x, i, h)
             ELSE Search(a, x, h + 1, j)
    ELSE i
SearchInts(a, x) == Search(a, x, 0, Len(a))

CallNew ==
    /\ mode = "pick"
    /\ calc.op = "items"
    /\ calc' = [op |-> "New", p |-> New(calc.items)]
    /\ UNCHANGED <<backend, mnil, mode, vIface, peer, mapVars, procVars,
                   histVars>>
\* Pick on a picker without items.
PickEmpty ==
    /\ mode = "pick"
    /\ calc.op \in {"New", "Pick"}
    /\ Len(calc.p.items) = 0
    /\ calc' = [op |-> "Pick", p |-> calc.p, x |-> 0,
                out |-> [item |-> ZeroItem, err |-> "ErrEmptyPicker"]]
    /\ UNCHANGED <<backend, mnil, mode, vIface, peer, mapVars, procVars,
                   histVars>>
\* rand.Int(rand.Reader, max) panics when max <= 0 ("crypto/rand: argument
\* to Int is <= 0").
PickPanic ==
    /\ mode = "pick"
    /\ calc.op \in {"New", "Pick"}
    /\ Len(calc.p.items) # 0
    /\ calc.p.totalWeight <= 0
    /\ calc' = [op |-> "panic", p |-> calc.p]
    /\ UNCHANGED <<backend, mnil, mode, vIface, peer, mapVars, procVars,
                   histVars>>
\* rand.Int returned an error (rand.Reader failed): return zero, err.
PickError ==
    /\ mode = "pick"
    /\ calc.op \in {"New", "Pick"}
    /\ Len(calc.p.items) # 0
    /\ calc.p.totalWeight > 0
    /\ calc' = [op |-> "Pick", p |-> calc.p, x |-> 0,
                out |-> [item |-> ZeroItem, err |-> "ErrReader"]]
    /\ UNCHANGED <<backend, mnil, mode, vIface, peer, mapVars, procVars,
                   histVars>>
\* Pick: n uniform in [0, totalWeight), x = n + 1, the item at
\* sort.SearchInts(p.prefixSums, x).
Pick ==
    /\ mode = "pick"
    /\ calc.op \in {"New", "Pick"}
    /\ Len(calc.p.items) # 0
    /\ calc.p.totalWeight > 0
    /\ \E n \in 0..(calc.p.totalWeight - 1) :
          calc' = [op |-> "Pick", p |-> calc.p, x |-> n + 1,
                   out |-> [item |-> calc.p.items[
                                SearchInts(calc.p.prefixSums, n + 1) + 1],
                            err |-> "nil"]]
    /\ UNCHANGED <<backend, mnil, mode, vIface, peer, mapVars, procVars,
                   histVars>>

\* -------------------------------------------------- specifications
NoLock == [writer |-> {}, readers |-> {}, waiting |-> {}]

\* The state New returns (and, with SN, the zero rwMap{} whose store is
\* nil), before any goroutine has called anything; VI tells whether the
\* map is instantiated with an interface type for V.
InitMap(md, B, N, SN, VI) ==
    /\ mode = md
    /\ vIface \in VI
    /\ peer = EmptyMap
    /\ backend \in B
    /\ mnil \in N
    /\ storeNil \in (IF backend = "rwmapNT" THEN SN ELSE {FALSE})
    /\ store = EmptyMap
    /\ mu = NoLock
    /\ pc = [p \in Procs |-> "idle"]
    /\ call = [p \in Procs |-> NoCall]
    /\ outer = [p \in Procs |-> NoCall]
    /\ ret = [p \in Procs |-> NoRet]
    /\ snap = [p \in Procs |-> EmptyMap]
    /\ todo = [p \in Procs |-> {}]
    /\ seen = [p \in Procs |-> <<>>]
    /\ lastMut = [k \in AllKeys |-> {}]
    /\ dirty = [p \in Procs |-> FALSE]
    /\ atAcq = [p \in Procs |-> EmptyMap]
    /\ trail = IF md \in {"race", "log", "lin"} THEN [p \in Procs |-> <<>>] ELSE <<>>
    /\ lenObs = [p \in Procs |-> NoObs]
InitTyped(md, B, N, SN, VI) == InitMap(md, B, N, SN, VI) /\ calc = NoCalc
\* The instantiations of the tests: V is int or string.
InitWith(md, B, N, SN) == InitTyped(md, B, N, SN, {FALSE})

\* Goroutines calling Load, Store, LoadOrStore, LoadAndDelete, Delete and
\* Len concurrently on a map made by New.
Init == InitWith("conc", {"rwmap", "syncmap"}, {FALSE}, {FALSE})
InvokePoint(p) == \E c \in PointCalls : Invoke(p, c)
Next ==
    \E p \in Procs :
        \/ InvokePoint(p)
        \/ RLock(p)
        \/ Lock(p)
        \/ LockGranted(p)
        \/ Load(p)
        \/ Store(p)
        \/ LoadOrStoreProbe(p)
        \/ LoadOrStore(p)
        \/ LoadAndDeleteProbe(p)
        \/ LoadAndDelete(p)
        \/ Delete(p)
        \/ Len_(p)
        \/ SyncRange(p)
        \/ RangeSkip(p)
        \/ LenCount(p)
Spec == Init /\ [][Next]_vars

\* One caller issuing every method in sequence, on each implementation, on
\* a map made by New, a zero rwMap{} and a nil reference.
InitSeq == InitWith("seq", Backends, BOOLEAN, BOOLEAN)
Caller == CHOOSE p \in Procs : TRUE
InvokeSeq(p) == \E c \in PointCalls \cup RangeCalls : Invoke(p, c)
NextSeq ==
    \E p \in {Caller} :
        \/ InvokeSeq(p)
        \/ NilReceiver(p)
        \/ RLock(p)
        \/ Lock(p)
        \/ Load(p)
        \/ Store(p)
        \/ LoadOrStoreProbe(p)
        \/ LoadOrStore(p)
        \/ LoadAndDeleteProbe(p)
        \/ LoadAndDelete(p)
        \/ Delete(p)
        \/ Len_(p)
        \/ RangeNilFn(p)
        \/ RangeSnapshot(p)
        \/ SyncRange(p)
        \/ RangeSkip(p)
        \/ LenCount(p)
        \/ RangeCallback(p)
        \/ RangeCallbackStore(p)
        \/ RangeNilCallback(p)
SpecSeq == InitSeq /\ [][NextSeq]_vars

\* The race of the tests' shape: every goroutine calls LoadOrStore on the
\* same absent key with a value of its own choice; when all have returned
\* (wg.Wait) each one calls Load on that key.
RaceKey == 1
InitRace == InitWith("race", Backends, {FALSE}, BOOLEAN)
Round(p) == Len(trail[p])
RaceCalls(r) ==
    IF r = 0 THEN {Call("LoadOrStore", RaceKey, v, "none") : v \in Vals}
    ELSE {Call("Load", RaceKey, Zero, "none")}
InvokeRace(p) ==
    /\ Round(p) < 2
    /\ \A q \in Procs : Round(q) >= Round(p)
    /\ \E c \in RaceCalls(Round(p)) : Invoke(p, c)
NextRace ==
    \E p \in Procs :
        \/ InvokeRace(p)
        \/ RLock(p)
        \/ Lock(p)
        \/ LoadOrStoreProbe(p)
        \/ LoadOrStore(p)
        \/ Load(p)
SpecRace == InitRace /\ [][NextRace]_vars

\* One goroutine calling Range, with each kind of callback, while the
\* others Store and Delete.
Ranger == Caller
InitRange == InitWith("range", Backends, {FALSE}, {FALSE})
MutCalls ==
    {Call("Store", k, v, "none") : k \in Keys, v \in Vals}
    \cup {Call("Delete", k, Zero, "none") : k \in Keys}
InvokeRange(p) ==
    \E c \in (IF p = Ranger THEN RangeCalls ELSE MutCalls) : Invoke(p, c)
StepRange(p) ==
    \/ RLock(p)
    \/ Lock(p)
    \/ LockGranted(p)
    \/ Store(p)
    \/ Delete(p)
    \/ RangeNilFn(p)
    \/ RangeSnapshot(p)
    \/ SyncRange(p)
    \/ RangeSkip(p)
    \/ RangeCallback(p)
    \/ RangeCallbackStore(p)
    \/ RangeNilCallback(p)
NextRange == \E p \in Procs : InvokeRange(p) \/ StepRange(p)
SpecRange == InitRange /\ [][NextRange]_vars

\* The same under Go's scheduling: a goroutine that can take a step
\* eventually takes it, and sync.Mutex's starvation mode hands the writer
\* mutex to a goroutine that keeps asking for it.
SpecRangeFair ==
    /\ SpecRange
    /\ \A p \in Procs : WF_vars(StepRange(p)) /\ SF_vars(Lock(p))

\* syncmap: one goroutine calling Len while the others Store and Delete.
InitLen == InitWith("len", {"syncmap"}, {FALSE}, {FALSE})
InvokeLen(p) ==
    \E c \in (IF p = Caller THEN {Call("Len", 0, Zero, "none")}
              ELSE MutCalls) : Invoke(p, c)
NextLen ==
    \E p \in Procs :
        \/ InvokeLen(p)
        \/ Store(p)
        \/ Delete(p)
        \/ SyncRange(p)
        \/ RangeSkip(p)
        \/ LenCount(p)
SpecLen == InitLen /\ [][NextLen]_vars

\* One caller issuing MaxOps calls in sequence on a freshly constructed
\* map, with a Len() after each of them, as the tests do.
MaxOps == 3
InitLog == InitWith("log", Backends, {FALSE}, {FALSE})
LogCalls == PointCalls \cup {Call("Range", 0, Zero, "all")}
InvokeLog(p) ==
    /\ Round(p) < 2 * MaxOps
    /\ \E c \in (IF Round(p) % 2 = 0 THEN LogCalls
                 ELSE {Call("Len", 0, Zero, "none")}) : Invoke(p, c)
NextLog ==
    \E p \in {Caller} :
        \/ InvokeLog(p)
        \/ RLock(p)
        \/ Lock(p)
        \/ Load(p)
        \/ Store(p)
        \/ LoadOrStoreProbe(p)
        \/ LoadOrStore(p)
        \/ LoadAndDeleteProbe(p)
        \/ LoadAndDelete(p)
        \/ Delete(p)
        \/ Len_(p)
        \/ RangeSnapshot(p)
        \/ SyncRange(p)
        \/ RangeSkip(p)
        \/ LenCount(p)
        \/ RangeCallback(p)
SpecLog == InitLog /\ [][NextLog]_vars

\* The same caller on the two backends New returns, instantiated with a
\* concrete type or with an interface type for V (Map[K comparable, V any]).
InitAny == InitTyped("log", {"rwmap", "syncmap"}, {FALSE}, {FALSE}, BOOLEAN)
NextAny ==
    \E p \in {Caller} :
        \/ InvokeLog(p)
        \/ RLock(p)
        \/ Lock(p)
        \/ Load(p)
        \/ Store(p)
        \/ LoadOrStoreProbe(p)
        \/ LoadOrStore(p)
        \/ LoadAndDeleteProbe(p)
        \/ LoadAndDelete(p)
        \/ Delete(p)
        \/ Len_(p)
        \/ RangeSnapshot(p)
        \/ SyncRange(p)
        \/ RangeSkip(p)
        \/ LenCount(p)
        \/ RangeCallback(p)
        \/ AssertPanic(p)
        \/ RangeAssertPanic(p)
SpecAny == InitAny /\ [][NextAny]_vars

\* Two maps made by New: one caller issues MaxOps calls on the first while
\* Store and Delete calls are made on the second.
InitPeer == InitWith("log", Backends, {FALSE}, {FALSE})
InvokePeer(p) ==
    /\ Round(p) < MaxOps
    /\ \E c \in LogCalls : Invoke(p, c)
NextPeer ==
    \/ \E c \in MutCalls : PeerCall(c)
    \/ \E p \in {Caller} :
        \/ InvokePeer(p)
        \/ RLock(p)
        \/ Lock(p)
        \/ Load(p)
        \/ Store(p)
        \/ LoadOrStoreProbe(p)
        \/ LoadOrStore(p)
        \/ LoadAndDeleteProbe(p)
        \/ LoadAndDelete(p)
        \/ Delete(p)
        \/ Len_(p)
        \/ RangeSnapshot(p)
        \/ SyncRange(p)
        \/ RangeSkip(p)
        \/ LenCount(p)
        \/ RangeCallback(p)
SpecPeer == InitPeer /\ [][NextPeer]_vars

\* The mutex backends under load: every goroutine calls every method,
\* Range with each kind of callback included, on a map made by New or on a
\* zero rwMap{}. The values stored play no part in the locking: every
\* call stores the zero value.
InitMutex == InitWith("conc", {"rwmap", "rwmapNT"}, {FALSE}, BOOLEAN)
MutexCalls == {c \in PointCalls : c.val = Zero} \cup RangeCalls
InvokeMutex(p) == \E c \in MutexCalls : Invoke(p, c)
StepMutex(p) ==
    \/ RLock(p)
    \/ Lock(p)
    \/ LockGranted(p)
    \/ Load(p)
    \/ Store(p)
    \/ LoadOrStoreProbe(p)
    \/ LoadOrStore(p)
    \/ LoadAndDeleteProbe(p)
    \/ LoadAndDelete(p)
    \/ Delete(p)
    \/ Len_(p)
    \/ RangeNilFn(p)
    \/ RangeSnapshot(p)
    \/ RangeCallback(p)
    \/ RangeCallbackStore(p)
NextMutex == \E p \in Procs : InvokeMutex(p) \/ StepMutex(p)
SpecMutex == InitMutex /\ [][NextMutex]_vars

\* Readers and writers of a map made by New contending for the lock:
\* every goroutine calls Load, Len, Range with a recording callback,
\* Store, LoadOrStore, LoadAndDelete and Delete. The lock is the map's,
\* not a key's: the calls are all on one key.
InitFair == InitWith("conc", {"rwmap", "rwmapNT"}, {FALSE}, {FALSE})
FairCalls ==
    {c \in MutexCalls : /\ c.name = "Range" => c.fn = "all"
                        /\ c.key \in {0, RaceKey}}
InvokeFair(p) == \E c \in FairCalls : Invoke(p, c)
StepFair(p) ==
    \/ RLock(p)
    \/ Lock(p)
    \/ LockGranted(p)
    \/ Load(p)
    \/ Store(p)
    \/ LoadOrStoreProbe(p)
    \/ LoadOrStore(p)
    \/ LoadAndDeleteProbe(p)
    \/ LoadAndDelete(p)
    \/ Delete(p)
    \/ Len_(p)
    \/ RangeSnapshot(p)
    \/ RangeCallback(p)
NextFair == \E p \in Procs : InvokeFair(p) \/ StepFair(p)
\* Go's scheduling: a goroutine that can take a step eventually takes it,
\* and sync.Mutex's starvation mode hands the writer mutex to a goroutine
\* that keeps asking for it.
SpecMutexFair ==
    /\ InitFair /\ [][NextFair]_vars
    /\ \A p \in Procs : WF_vars(StepFair(p)) /\ SF_vars(Lock(p))

\* Goroutines of the mutex backends making MaxOps calls of Load, Store,
\* LoadOrStore, LoadAndDelete, Delete and Len between them, with the
\* history of invocations and returns kept.
InitLin == InitWith("lin", {"rwmap", "rwmapNT"}, {FALSE}, {FALSE})
RECURSIVE Invoked(_)
Invoked(P) ==
    IF P = {} THEN 0
    ELSE LET q == CHOOSE q \in P : TRUE IN Len(trail[q]) + Invoked(P \ {q})
InvokeLin(p) ==
    /\ Invoked(Procs) < MaxOps
    /\ \E c \in PointCalls : Invoke(p, c)
NextLin ==
    \E p \in Procs :
        \/ InvokeLin(p)
        \/ RLock(p)
        \/ Lock(p)
        \/ LockGranted(p)
        \/ Load(p)
        \/ Store(p)
        \/ LoadOrStoreProbe(p)
        \/ LoadOrStore(p)
        \/ LoadAndDeleteProbe(p)
        \/ LoadAndDelete(p)
        \/ Delete(p)
        \/ Len_(p)
SpecLin == InitLin /\ [][NextLin]_vars

\* The race on a present key: one goroutine stores RaceKey, makes one more
\* Store and calls Len; then every goroutine calls LoadAndDelete(RaceKey);
\* when all have returned (wg.Wait) the first one calls Len and
\* Load(RaceKey).
InitTake == InitWith("race", Backends, {FALSE}, {FALSE})
TakeCalls(r) ==
    CASE r = 0 -> {Call("Store", RaceKey, v, "none") : v \in Vals}
      [] r = 1 -> {Call("Store", k, v, "none") : k \in Keys, v \in Vals}
      [] r \in {2, 4} -> {Call("Len", 0, Zero, "none")}
      [] r = 3 -> {Call("LoadAndDelete", RaceKey, Zero, "none")}
      [] OTHER -> {Call("Load", RaceKey, Zero, "none")}
InvokeTake(p) ==
    IF p = Caller
    THEN /\ Round(p) < 6
         /\ Round(p) = 4 => \A q \in Procs \ {p} : Round(q) = 1
         /\ \E c \in TakeCalls(Round(p)) : Invoke(p, c)
    ELSE /\ Round(p) = 0
         /\ Round(Caller) >= 3
         /\ \E c \in TakeCalls(3) : Invoke(p, c)
NextTake ==
    \E p \in Procs :
        \/ InvokeTake(p)
        \/ RLock(p)
        \/ Lock(p)
        \/ Load(p)
        \/ Store(p)
        \/ LoadAndDeleteProbe(p)
        \/ LoadAndDelete(p)
        \/ Len_(p)
        \/ SyncRange(p)
        \/ RangeSkip(p)
        \/ LenCount(p)
SpecTake == InitTake /\ [][NextTake]_vars

\* syncmap: one goroutine calling Range with a recording callback while
\* the others Store and Delete.
InitSweep == InitWith("sweep", {"syncmap"}, {FALSE}, {FALSE})
SweepCalls == {c \in RangeCalls : c.fn = "all"}
InvokeSweep(p) ==
    \E c \in (IF p = Ranger THEN SweepCalls ELSE MutCalls) : Invoke(p, c)
NextSweep ==
    \E p \in Procs :
        \/ InvokeSweep(p)
        \/ Store(p)
        \/ Delete(p)
        \/ SyncRange(p)
        \/ RangeSkip(p)
        \/ RangeCallback(p)
SpecSweep == InitSweep /\ [][NextSweep]_vars

\* syncmap: the goroutines make MaxOps calls of the keyed methods and of
\* Len between them; a keyed call is one operation of sync.Map, Len counts
\* by iterating.
InitKey == InitWith("lin", {"syncmap"}, {FALSE}, {FALSE})
InvokeKey(p) ==
    /\ Invoked(Procs) < MaxOps
    /\ \E c \in PointCalls : Invoke(p, c)
NextKey ==
    \E p \in Procs :
        \/ InvokeKey(p)
        \/ Load(p)
        \/ Store(p)
        \/ LoadOrStore(p)
        \/ LoadAndDelete(p)
        \/ Delete(p)
        \/ SyncRange(p)
        \/ RangeSkip(p)
        \/ LenCount(p)
SpecKey == InitKey /\ [][NextKey]_vars

\* A nil map reference of syncmap or of the nil-tolerant variant: every
\* goroutine calls LoadOrStore twice, beside the others' calls; when all
\* have returned each one calls Load and then Len.
InitNil == InitWith("race", {"syncmap", "rwmapNT"}, {TRUE}, {FALSE})
NilCalls(r) ==
    CASE r \in {0, 1} ->
            {Call("LoadOrStore", k, v, "none") : k \in Keys, v \in Vals}
      [] r = 2 -> {Call("Load", k, Zero, "none") : k \in Keys}
      [] OTHER -> {Call("Len", 0, Zero, "none")}
InvokeNil(p) ==
    /\ Round(p) < 4
    /\ Round(p) >= 2 => \A q \in Procs : Round(q) >= 2
    /\ \E c \in NilCalls(Round(p)) : Invoke(p, c)
NextNil ==
    \E p \in Procs :
        \/ InvokeNil(p)
        \/ NilReceiver(p)
SpecNil == InitNil /\ [][NextNil]_vars

\* The nil-tolerant variant as &rwMap{}, its inner store nil: one caller
\* making MaxOps calls, each followed by Len().
InitBare == InitWith("log", {"rwmapNT"}, {FALSE}, {TRUE})
NextBare ==
    \E p \in {Caller} :
        \/ InvokeLog(p)
        \/ RLock(p)
        \/ Lock(p)
        \/ Load(p)
        \/ Store(p)
        \/ LoadOrStoreProbe(p)
        \/ LoadOrStore(p)
        \/ LoadAndDeleteProbe(p)
        \/ LoadAndDelete(p)
        \/ Delete(p)
        \/ Len_(p)
        \/ RangeSnapshot(p)
        \/ RangeCallback(p)
SpecBare == InitBare /\ [][NextBare]_vars

\* Package safemath: every function called on every operand of every type.
InitMath == InitWith("math", {"rwmap"}, {FALSE}, {FALSE})
NextMath ==
    \/ CallArith("Add")
    \/ CallArith("Sub")
    \/ CallArith("Mul")
    \/ CallArith("Div")
    \/ CallArith("Mod")
    \/ CallCast
SpecMath == InitMath /\ [][NextMath]_vars

\* Package randx: a Picker made by New of every list of items, and picks
\* from it.
InitPick ==
    /\ InitMap("pick", {"rwmap"}, {FALSE}, {FALSE}, {FALSE})
    /\ calc \in {[op |-> "items", items |-> l] : l \in ItemLists}
NextPick == CallNew \/ PickEmpty \/ PickPanic \/ PickError \/ Pick
SpecPick == InitPick /\ [][NextPick]_vars

\* Package slicex: Batch and Cut called on every slice, size and index.
InitSlice ==
    /\ InitMap("slice", {"rwmap"}, {FALSE}, {FALSE}, {FALSE})
    /\ calc \in SliceArgs
NextSlice == CallBatch \/ CallCut
SpecSlice == InitSlice /\ [][NextSlice]_vars

\* ------------------------------------------------------------ claims
\* Goroutine p's call named n returns in this step.
Returns(p, n) ==
    /\ pc[p] # "done" /\ pc'[p] = "done"
    /\ call'[p].name = n

\* C2: on both backends, a Load(k) that reads while the last call to act
\* on k is a Store(k, v) (no Store/LoadOrStore/Delete/LoadAndDelete on k
\* acted after it) returns (v, true).
C2_LoadAfterStore ==
    [][\A p \in Procs : \A v \in Vals :
          (Returns(p, "Load") /\ lastMut[call[p].key] = {v})
              => ret'[p] = Ret(v, TRUE)]_vars
C2_Witness ==
    \E p, q \in Procs :
        /\ p # q
        /\ pc[p] = "done" /\ call[p].name = "Load"
        /\ pc[q] = "done" /\ call[q].name = "Store"
        /\ call[q].key = call[p].key
        /\ lastMut[call[p].key] = {call[q].val}
        /\ ret[p] = Ret(call[q].val, TRUE)
        /\ call[q].val = Zero

\* C3: on both backends, a Len() that no mutating call overlaps returns
\* the number of distinct keys present.
C3_LenCountsKeys ==
    [][\A p \in Procs :
          (Returns(p, "Len") /\ ~dirty[p])
              => ret'[p] = Ret(Cardinality(DOMAIN store), TRUE)]_vars
C3_Witness ==
    \E p \in Procs :
        /\ pc[p] = "done" /\ call[p].name = "Len" /\ ~dirty[p]
        /\ ret[p] = Ret(NumProcs, TRUE)
        /\ \A q \in Procs \ {p} : pc[q] = "done" /\ call[q].name = "Store"
        /\ \A k \in Keys : k <= NumProcs => lastMut[k] # {}

\* C7: syncmap: once every Store, LoadOrStore, Delete and LoadAndDelete
\* has completed, Len() equals the number of keys Load finds.
C7_SyncLenAtRest ==
    [][\A p \in Procs :
          (backend = "syncmap" /\ Returns(p, "Len") /\ ~dirty[p])
              => ret'[p].val = Cardinality({k \in Keys : Get(store', k).ok})]_vars
C7_Witness ==
    \E p, q \in Procs :
        /\ backend = "syncmap"
        /\ pc[p] = "done" /\ call[p].name = "Len" /\ ~dirty[p]
        /\ pc[q] = "done" /\ call[q].name = "Delete"
        /\ ret[p].val = 1
        /\ Cardinality(DOMAIN store) = 1

\* The entries s with key k bound to v, and with key k removed, written
\* out entry by entry.
IsWith(t, s, k, v) ==
    /\ DOMAIN t = (DOMAIN s) \cup {k}
    /\ t[k] = v
    /\ \A x \in (DOMAIN s) \ {k} : t[x] = s[x]
IsWithout(t, s, k) ==
    /\ DOMAIN t = (DOMAIN s) \ {k}
    /\ \A x \in (DOMAIN s) \ {k} : t[x] = s[x]
\* The sequential caller is between calls, its last call being trail[2].
AtRest == pc[Caller] = "done" /\ Len(trail) >= 2

\* C6 as stated: on a nil map reference no method faults, on any backend,
\* and each returns the zero-effect result.
C6_NilNeverFaults ==
    mnil => /\ NoPanic
            /\ \A p \in Procs : pc[p] = "done" =>
                 /\ call[p].name \in {"Load", "LoadAndDelete"}
                       => ret[p] = Ret(Zero, FALSE)
                 /\ call[p].name = "Len" => ret[p].val = 0
                 /\ seen[p] = <<>>
            /\ store = EmptyMap
\* C6, what the code does keep: on a nil map reference syncmap and the
\* nil-tolerant rwMap return the zero-effect result (Load and
\* LoadAndDelete (zero, false), Len 0, Store and Delete nothing, Range no
\* callback); rwmap.go's rwMap panics in every method but Range(nil).
C6_NilZeroEffect ==
    mnil => /\ store = EmptyMap
            /\ \A p \in Procs :
                 /\ seen[p] = <<>>
                 /\ backend # "rwmap" => pc[p] # "panic"
                 /\ (backend # "rwmap" /\ pc[p] = "done") =>
                      /\ call[p].name \in {"Load", "LoadAndDelete"}
                            => ret[p] = Ret(Zero, FALSE)
                      /\ call[p].name = "Len" => ret[p].val = 0
                 /\ (backend = "rwmap" /\ pc[p] = "done")
                      => call[p] = Call("Range", 0, Zero, "nil")
\* rwmap.go: Load called on a nil map reference has panicked.
C6_Witness ==
    /\ mnil /\ backend = "rwmap"
    /\ call[Caller].name = "Load"
    /\ pc[Caller] = "panic"
\* The nil-tolerant rwMap: Store on a nil map reference between two Len()
\* calls that return 0.
C6_Degrades ==
    /\ mnil /\ backend = "rwmapNT"
    /\ pc[Caller] = "done" /\ call[Caller].name = "Len"
    /\ Len(trail) = 3 /\ trail[2].c.name = "Store"
    /\ ret[Caller] = Ret(0, TRUE)

\* C9: a sequential LoadOrStore(k, v) on a map that is not nil: k present
\* with e gives (e, true), the entries and Len() stay; k absent gives
\* (v, false), k is bound to v and Len() grows by exactly 1.
C9_LoadOrStoreSeq ==
    (~mnil /\ Len(trail) >= 2 /\ trail[2].c.name = "LoadOrStore") =>
        LET e == trail[2]
            k == e.c.key
            had == k \in DOMAIN e.pre
        IN  /\ had => e.r = Ret(e.pre[k], TRUE)
            /\ ~had => e.r = Ret(e.c.val, FALSE)
            /\ AtRest => IF had THEN store = e.pre
                         ELSE IsWith(store, e.pre, k, e.c.val)
            /\ Len(trail) = 3 =>
                 trail[3].r.val = trail[1].r.val + (IF had THEN 0 ELSE 1)
C9_Witness ==
    /\ ~mnil /\ Len(trail) = 3 /\ pc[Caller] = "done"
    /\ trail[2].c.name = "LoadOrStore"
    /\ trail[2].c.val # Zero
    /\ trail[2].r = Ret(Zero, TRUE)
    /\ trail[3].r.val = 2

\* C10: a sequential LoadAndDelete(k) on a map that is not nil: k present
\* with e gives (e, true), k is removed and Len() drops by exactly 1; k
\* absent gives (zero, false) and nothing changes.
C10_LoadAndDeleteSeq ==
    (~mnil /\ Len(trail) >= 2 /\ trail[2].c.name = "LoadAndDelete") =>
        LET e == trail[2]
            k == e.c.key
            had == k \in DOMAIN e.pre
        IN  /\ had => e.r = Ret(e.pre[k], TRUE)
            /\ ~had => e.r = Ret(Zero, FALSE)
            /\ AtRest => IF had THEN IsWithout(store, e.pre, k)
                         ELSE store = e.pre
            /\ Len(trail) = 3 =>
                 trail[3].r.val = trail[1].r.val - (IF had THEN 1 ELSE 0)
C10_Witness ==
    /\ ~mnil /\ Len(trail) = 3 /\ pc[Caller] = "done"
    /\ trail[2].c.name = "LoadAndDelete"
    /\ trail[2].r = Ret(Zero, TRUE)
    /\ trail[1].r.val = 2 /\ trail[3].r.val = 1

\* C1: N >= 2 goroutines race LoadOrStore(k, v_i) on an absent key k:
\* exactly one returns loaded=false with its own v_i, every other returns
\* loaded=true with that winner's value, and Load(k) afterwards returns
\* the winner's value.
Raced == \A p \in Procs : Round(p) >= 1
Winners == {p \in Procs : ~trail[p][1].r.ok}
C1_FirstWriterWins ==
    (mode = "race" /\ Raced) =>
        /\ Cardinality(Winners) = 1
        /\ \A w \in Winners : \A p \in Procs :
             /\ trail[w][1].r.val = trail[w][1].c.val
             /\ p # w => trail[p][1].r = Ret(trail[w][1].c.val, TRUE)
             /\ Round(p) = 2 => trail[p][2].r = Ret(trail[w][1].c.val, TRUE)
C1_Witness ==
    /\ mode = "race"
    /\ \A p \in Procs : Round(p) = 2
    /\ \E w, l \in Procs :
         /\ w > l
         /\ trail[w][1].r = Ret(Zero, FALSE)
         /\ trail[l][1].c.val # Zero
         /\ trail[l][2].r = Ret(Zero, TRUE)

\* The keys of the delivered pairs are pairwise distinct.
OncePerKey(q) == \A i, j \in 1..Len(q) : q[i].key = q[j].key => i = j
\* Goroutine p runs, or has just finished, a Range of a mutex backend.
InRange(p) ==
    /\ IsRW /\ TopCall(p).name = "Range"
    /\ pc[p] \notin {"idle", "panic"}

\* C4: mutex backend: whatever other goroutines or the callback itself
\* delete, insert or overwrite meanwhile, Range delivers only pairs that
\* were in the map when it got the shared lock, each key once, and, when
\* the callback never returns false, exactly those pairs.
C4_RangeSnapshot ==
    \A p \in Procs : InRange(p) =>
        /\ SeqSet(seen[p]) \subseteq Pairs(atAcq[p])
        /\ OncePerKey(seen[p])
        /\ (pc[p] = "done" /\ call[p].fn \in {"all", "store"})
              => SeqSet(seen[p]) = Pairs(atAcq[p])
C4_Witness ==
    \E p \in Procs : \E k1, k2 \in Keys :
        /\ InRange(p) /\ pc[p] = "done" /\ call[p].fn = "all"
        /\ DOMAIN atAcq[p] = {k1}
        /\ DOMAIN store = {k1, k2}
        /\ k1 # k2
        /\ store[k1] # atAcq[p][k1]
        /\ seen[p] = <<Pair(k1, atAcq[p][k1])>>

\* C5: mutex backend: a Range whose callback calls Store on the same map
\* does not deadlock: it returns, having called the callback once per
\* entry of its snapshot.
C5_CallbackStoreReturns ==
    \A p \in Procs :
        (IsRW /\ pc[p] = "start" /\ call[p].name = "Range"
              /\ call[p].fn = "store")
        ~> (/\ pc[p] = "done" /\ call[p].name = "Range"
            /\ call[p].fn = "store"
            /\ Len(seen[p]) = Cardinality(DOMAIN atAcq[p]))
C5_Witness ==
    \E p \in Procs :
        /\ InRange(p) /\ pc[p] = "done" /\ call[p].fn = "store"
        /\ Len(seen[p]) = NumKeys - 1
        /\ Cardinality(DOMAIN store) = NumKeys
        /\ \A q \in Procs \ {p} : call[q].name = "Delete"

\* A Len call of syncmap has returned.
LenDone(p) ==
    /\ mode = "len" /\ pc[p] = "done" /\ call[p].name = "Len"

\* C8 as stated: syncmap's Len() returns the number of live keys at some
\* single instant between its start and its return, whatever the other
\* goroutines do meanwhile.
C8_LenAtAnInstant ==
    \A p \in Procs : LenDone(p) => ret[p].val \in lenObs[p].counts
\* C8 amended: syncmap's Len() is approximate under concurrent mutation:
\* it returns at least the number of keys live throughout the call and at
\* most the number of keys live at some instant of it, and exactly the
\* number of live keys when no mutating call overlaps it.
C8_LenApproximate ==
    \A p \in Procs : LenDone(p) =>
        /\ Cardinality(lenObs[p].lo) <= ret[p].val
        /\ ret[p].val <= Cardinality(lenObs[p].hi)
        /\ ~dirty[p] => lenObs[p].counts = {ret[p].val}
C8_Witness ==
    \E p \in Procs :
        /\ LenDone(p)
        /\ ret[p].val \notin lenObs[p].counts
        /\ lenObs[p].lo = {}
        /\ lenObs[p].hi = Keys

\* The caller's completed calls, in order; entry i removed key k.
Log == trail[Caller]
Removed(i, k) ==
    /\ Log[i].c.key = k
    /\ \/ Log[i].c.name = "Delete"
       \/ Log[i].c.name = "LoadAndDelete" /\ Log[i].r.ok
\* No Store or LoadOrStore on key k among the entries strictly between.
NoInsert(i, j, k) ==
    \A x \in (i + 1)..(j - 1) :
        ~(Log[x].c.name \in {"Store", "LoadOrStore"} /\ Log[x].c.key = k)

\* C11: on every backend, after a Delete(k), or a LoadAndDelete(k) that
\* returned loaded=true, has returned and until the next Store or
\* LoadOrStore on k, Load(k) and LoadAndDelete(k) return (zero, false).
C11_GoneAfterDelete ==
    mode = "log" =>
        \A i, j \in 1..Len(Log) : \A k \in Keys :
            (/\ i < j /\ Removed(i, k) /\ NoInsert(i, j, k)
             /\ Log[j].c.key = k
             /\ Log[j].c.name \in {"Load", "LoadAndDelete"})
                => Log[j].r = Ret(Zero, FALSE)
C11_Witness ==
    /\ mode = "log" /\ Len(Log) >= 5
    /\ Log[1].c.name = "Store" /\ Log[1].c.val # Zero
    /\ Log[3].c.name = "LoadAndDelete" /\ Log[3].r.ok
    /\ Log[5].c.name = "LoadAndDelete" /\ Log[5].c.key = Log[3].c.key
    /\ Log[5].r = Ret(Zero, FALSE)

\* C12: overwrite round trip on every backend: Store(k, v1), Store(k, v2),
\* Load(k) yields (v2, true), and the Len() after the second Store equals
\* the Len() after the first: an overwrite is not counted as a new entry.
C12_OverwriteRoundTrip ==
    mode = "log" =>
        \A i \in 1..Len(Log) :
            (/\ i + 4 <= Len(Log)
             /\ Log[i].c.name = "Store" /\ Log[i + 2].c.name = "Store"
             /\ Log[i + 4].c.name = "Load"
             /\ Log[i + 2].c.key = Log[i].c.key
             /\ Log[i + 4].c.key = Log[i].c.key)
                => /\ Log[i + 4].r = Ret(Log[i + 2].c.val, TRUE)
                   /\ Log[i + 1].c.name = "Len" /\ Log[i + 3].c.name = "Len"
                   /\ Log[i + 3].r = Log[i + 1].r
C12_Witness ==
    /\ mode = "log" /\ Len(Log) >= 5
    /\ Log[1].c.name = "Store" /\ Log[3].c.name = "Store"
    /\ Log[5].c.name = "Load"
    /\ Log[3].c.key = Log[1].c.key /\ Log[5].c.key = Log[1].c.key
    /\ Log[1].c.val = Zero /\ Log[3].c.val # Zero
    /\ Log[5].r = Ret(Log[3].c.val, TRUE)
    /\ Log[2].r = Ret(1, TRUE) /\ Log[4].r = Ret(1, TRUE)

\* Goroutine p is inside, or has just returned from, a Range whose
\* callback returns false on its n-th invocation (n = call[p].val).
Stopping(p) ==
    /\ ~mnil /\ call[p].name = "Range" /\ call[p].fn = "stop"
    /\ pc[p] \in {"iter", "done"}

\* C13: on every backend Range stops at the first false: a callback that
\* returns false on its n-th invocation is never invoked more than n
\* times, and exactly n times when the map holds at least n entries (all
\* entries are visited when it holds fewer).
C13_RangeStopsAtFalse ==
    mode = "seq" =>
        \A p \in Procs : Stopping(p) =>
            LET n == call[p].val
                size == Cardinality(DOMAIN store)
            IN  /\ Len(seen[p]) <= n
                /\ pc[p] = "iter" => Len(seen[p]) < n
                /\ pc[p] = "done" =>
                     Len(seen[p]) = (IF size >= n THEN n ELSE size)
C13_Witness ==
    \E p \in Procs :
        /\ mode = "seq" /\ backend = "syncmap"
        /\ Stopping(p) /\ pc[p] = "done"
        /\ call[p].val < NumKeys
        /\ DOMAIN store = Keys
        /\ Len(seen[p]) = call[p].val

\* Goroutine p has returned from a Range whose callback always returns
\* true, called right after a Len().
Covered(p) ==
    /\ mode = "seq" /\ ~mnil
    /\ pc[p] = "done" /\ call[p].name = "Range" /\ call[p].fn = "all"

\* C14: on every backend, a Range whose callback always returns true, with
\* no mutation running beside it, invokes the callback exactly once per
\* live key, with the key's current value, and for no other key; the
\* number of invocations equals Len().
C14_RangeCoversMap ==
    \A p \in Procs : Covered(p) =>
        /\ SeqSet(seen[p]) = Pairs(store)
        /\ OncePerKey(seen[p])
        /\ Len(seen[p]) = Cardinality(DOMAIN store)
        /\ Len(trail) = 2 => Len(seen[p]) = trail[1].r.val
C14_Witness ==
    \E p \in Procs :
        /\ Covered(p) /\ Len(trail) = 2
        /\ trail[1].r = Ret(NumKeys, TRUE)
        /\ Len(seen[p]) = NumKeys
        /\ \E k \in Keys : store[k] # Zero

\* What a call does to the entries s and what it returns, as rwMap's
\* methods compute it; the entries after the caller's first n calls.
Effect(s, c) ==
    CASE c.name = "Store" -> Put(s, c.key, c.val)
      [] c.name = "LoadOrStore" ->
            IF Get(s, c.key).ok THEN s ELSE Put(s, c.key, c.val)
      [] c.name \in {"LoadAndDelete", "Delete"} -> Del(s, c.key)
      [] OTHER -> s
Answer(s, c) ==
    CASE c.name \in {"Load", "LoadAndDelete"} -> Get(s, c.key)
      [] c.name = "LoadOrStore" ->
            IF Get(s, c.key).ok THEN Get(s, c.key) ELSE Ret(c.val, FALSE)
      [] c.name = "Len" -> Ret(Cardinality(DOMAIN s), TRUE)
      [] OTHER -> NoRet
RECURSIVE Replay(_)
Replay(n) == IF n = 0 THEN EmptyMap ELSE Effect(Replay(n - 1), Log[n].c)

\* Every completed call returned what the sequence of calls determines.
Agrees ==
    /\ \A i \in 1..Len(Log) : Log[i].r = Answer(Replay(i - 1), Log[i].c)
    /\ (pc[Caller] = "done" /\ call[Caller].name = "Range")
          => SeqSet(seen[Caller]) = Pairs(Replay(Len(Log)))

\* C15 as stated: the two backends are interchangeable: for every sequence
\* of Load, Store, LoadOrStore, LoadAndDelete, Delete and Len calls of one
\* caller on a fresh map, each call returns, on either backend, the result
\* the sequence of calls determines, and a full Range visits the same pairs.
C15_Interchangeable ==
    mode = "log" => NoPanic /\ Agrees
\* C15, what the code does keep: the calls that return agree with the
\* sequence, and only syncmap instantiated with an interface type panics.
C15_AgreeUnlessNil ==
    mode = "log" => Agrees /\ (NoPanic \/ (backend = "syncmap" /\ vIface))
\* The divergence: syncmap, instantiated with an interface type, panics in
\* the Len() that follows Store(k, nil), where rwMap returns 1.
C15_Witness ==
    /\ mode = "log" /\ backend = "syncmap" /\ vIface
    /\ pc[Caller] = "panic" /\ call[Caller].name = "Len"
    /\ Len(Log) = 1 /\ Log[1].c.name = "Store" /\ Log[1].c.val = Zero
    /\ Answer(Replay(1), call[Caller]) = Ret(1, TRUE)

\* Entry i of the log is a Delete of key k followed by its Len().
Deleted(i, k) ==
    /\ i + 1 <= Len(Log)
    /\ Log[i].c.name = "Delete" /\ Log[i].c.key = k

\* C16: on every backend Delete of an absent key changes nothing: the
\* stored pairs and Len() are the same before and after; and a second
\* Delete(k) leaves what the first one left.
C16_DeleteAbsentNoOp ==
    mode = "log" =>
        \A i \in 1..Len(Log) : \A k \in Keys :
            /\ (Deleted(i, k) /\ k \notin DOMAIN Log[i].pre) =>
                  /\ Log[i + 1].pre = Log[i].pre
                  /\ Log[i + 1].r =
                        (IF i = 1 THEN Ret(0, TRUE) ELSE Log[i - 1].r)
            /\ (Deleted(i, k) /\ Deleted(i + 2, k)) =>
                  /\ Log[i + 3].pre = Log[i + 1].pre
                  /\ Log[i + 3].r = Log[i + 1].r
C16_Witness ==
    /\ mode = "log" /\ Len(Log) = 2 * MaxOps
    /\ Log[1].c.name = "Store" /\ Log[1].c.val # Zero
    /\ \E k \in Keys \ {Log[1].c.key} : Deleted(3, k) /\ Deleted(5, k)
    /\ Log[6].pre = Log[2].pre
    /\ Log[6].r = Ret(1, TRUE)

\* C17: a map returned by New is empty and private to its instance: on
\* it Len() is 0, Load(k) is (zero, false) for every k and Range calls
\* its callback zero times, until a call on that map inserts; and what a
\* map returns and holds is determined by the calls made on it, whatever
\* is stored in or deleted from another instance.
C17_FreshAndPrivate ==
    mode = "log" =>
        /\ Agrees
        /\ \A i \in 1..Len(Log) :
              /\ Log[i].pre = Replay(i - 1)
              /\ Replay(i - 1) = EmptyMap =>
                    /\ Log[i].c.name = "Len" => Log[i].r = Ret(0, TRUE)
                    /\ Log[i].c.name = "Load" => Log[i].r = Ret(Zero, FALSE)
        /\ (pc[Caller] = "done" /\ call[Caller].name = "Range"
                /\ Replay(Len(Log)) = EmptyMap) => seen[Caller] = <<>>
        /\ pc[Caller] \in {"idle", "done"} => store = Replay(Len(Log))
C17_Witness ==
    /\ mode = "log" /\ Len(Log) = MaxOps
    /\ DOMAIN peer = Keys /\ \A k \in Keys : peer[k] # Zero
    /\ Log[1].c.name = "Len" /\ Log[1].r = Ret(0, TRUE)
    /\ Log[2].c.name = "Load" /\ Log[2].r = Ret(Zero, FALSE)
    /\ Log[2].pre = EmptyMap
    /\ Log[3].c.name = "Range" /\ seen[Caller] = <<>>
    /\ store = EmptyMap

\* The result the claims ask of an arithmetic function whose mathematical
\* result on type t is x.
Exact(x, t) ==
    IF x \in ValuesOf(t) THEN Out(x, "nil")
    ELSE IF x > MaxOf(t) THEN Out(0, "ErrOverflow")
         ELSE Out(0, "ErrUnderflow")

\* C18 as stated: Mul returns (a*b, nil) exactly when the product is in
\* the type's range, otherwise zero with ErrOverflow (product above the
\* maximum) or ErrUnderflow (below the minimum), for all operand pairs,
\* minimum * -1 and -1 * minimum included.
C18_MulExact ==
    calc.op = "Mul" => calc.out = Exact(calc.a * calc.b, calc.t)
\* C18, what the code does keep: on the predeclared types Mul is exact for
\* every pair but (minimum, -1), for which it returns (minimum, nil).
C18_MulExactButMinByMinusOne ==
    (calc.op = "Mul" /\ ~calc.t.named) =>
        IF calc.t.signed /\ calc.a = MinOf(calc.t) /\ calc.b = -1
        THEN calc.out = Out(MinOf(calc.t), "nil")
        ELSE calc.out = Exact(calc.a * calc.b, calc.t)
C18_Witness ==
    /\ calc.op = "Mul"
    /\ calc.t = [signed |-> TRUE, bits |-> Bits, named |-> FALSE]
    /\ calc.a = MinOf(calc.t) /\ calc.b = -1
    /\ calc.out = Out(calc.a, "nil")
    /\ calc.a * calc.b > MaxOf(calc.t)

\* C19 as stated: Add and Sub return the exact result with a nil error
\* exactly when it is representable, otherwise zero with ErrOverflow
\* (above the maximum) or ErrUnderflow (below the minimum).
C19_AddSubExact ==
    /\ calc.op = "Add" => calc.out = Exact(calc.a + calc.b, calc.t)
    /\ calc.op = "Sub" => calc.out = Exact(calc.a - calc.b, calc.t)
\* C19, what the code does keep: Add and Sub are exact on the predeclared
\* types, and on the defined types whose underlying type is unsigned.
C19_AddSubExactPredeclared ==
    (calc.op \in {"Add", "Sub"} /\ ~(calc.t.named /\ calc.t.signed)) =>
        calc.out = Exact(IF calc.op = "Add" THEN calc.a + calc.b
                         ELSE calc.a - calc.b, calc.t)
C19_Witness ==
    /\ calc.op = "Add"
    /\ calc.t = [signed |-> TRUE, bits |-> Bits, named |-> TRUE]
    /\ calc.a = 1 /\ calc.b = -1
    /\ calc.out = Out(0, "ErrOverflow")

\* C20 as stated: Cast returns an error whenever value is not
\* representable in To, ErrUnderflow whenever a negative signed value is
\* converted to an unsigned type, and with a nil error a result equal to
\* value.
C20_CastLossless ==
    calc.op = "Cast" =>
        /\ calc.value \notin ValuesOf(calc.to) => calc.out.err # "nil"
        /\ (calc.from.signed /\ calc.value < 0 /\ ~calc.to.signed)
              => calc.out.err = "ErrUnderflow"
        /\ calc.out.err = "nil" => calc.out.val = calc.value
\* C20, what the code does keep: Cast fails exactly when converting the
\* result back to From does not give value again (ErrOverflow) or, that
\* passing, when value is negative, From a predeclared signed and To a
\* predeclared unsigned type (ErrUnderflow); a nil error comes with a
\* result congruent to value modulo 2^(width of To).
C20_CastRoundTrip ==
    calc.op = "Cast" =>
        LET back == Wrap(Wrap(calc.value, calc.to), calc.from)
        IN  /\ calc.out.err = "ErrOverflow" <=> back # calc.value
            /\ calc.out.err = "ErrUnderflow" <=>
                  /\ back = calc.value /\ calc.value < 0
                  /\ SignedCase(calc.from) /\ UnsignedCase(calc.to)
            /\ calc.out.err = "nil" =>
                  (calc.out.val - calc.value) % (2 ^ calc.to.bits) = 0
            /\ (calc.out.err = "nil" /\ calc.from.signed = calc.to.signed)
                  => calc.out.val = calc.value
C20_Witness ==
    /\ calc.op = "Cast"
    /\ calc.from = [signed |-> FALSE, bits |-> Bits, named |-> FALSE]
    /\ calc.to = [signed |-> TRUE, bits |-> Bits, named |-> FALSE]
    /\ calc.value = MaxOf(calc.from)
    /\ calc.out = Out(-1, "nil")

\* C21 as stated: Div returns ErrDivisionByZero exactly when b = 0,
\* ErrOverflow exactly when the type is signed, a its minimum and b = -1,
\* and otherwise the quotient truncated toward zero with a nil error; Mod
\* returns ErrDivisionByZero exactly when b = 0.
C21_DivModErrors ==
    /\ calc.op = "Div" =>
          LET over == calc.t.signed /\ calc.a = MinOf(calc.t) /\ calc.b = -1
          IN  /\ calc.out.err = "ErrDivisionByZero" <=> calc.b = 0
              /\ calc.out.err = "ErrOverflow" <=> over
              /\ (calc.b # 0 /\ ~over) =>
                    calc.out = Out(Quo(calc.a, calc.b), "nil")
    /\ calc.op = "Mod" => (calc.out.err = "ErrDivisionByZero" <=> calc.b = 0)
\* C21, what the code does keep: the statement holds on the predeclared
\* types and on every unsigned type; on a defined type with a signed
\* underlying type, minimum / -1 returns (minimum, nil). Mod returns the
\* remainder a - b * (a / b) whenever b is not zero.
C21_DivModPredeclared ==
    /\ (calc.op = "Div" /\ ~(calc.t.named /\ calc.t.signed)) =>
          LET over == calc.t.signed /\ calc.a = MinOf(calc.t) /\ calc.b = -1
          IN  /\ calc.out.err = "ErrDivisionByZero" <=> calc.b = 0
              /\ calc.out.err = "ErrOverflow" <=> over
              /\ (calc.b # 0 /\ ~over) =>
                    calc.out = Out(Quo(calc.a, calc.b), "nil")
    /\ (calc.op = "Div" /\ calc.t.named /\ calc.t.signed) =>
          IF calc.b = 0 THEN calc.out = Out(0, "ErrDivisionByZero")
          ELSE IF calc.a = MinOf(calc.t) /\ calc.b = -1
               THEN calc.out = Out(MinOf(calc.t), "nil")
               ELSE calc.out = Out(Quo(calc.a, calc.b), "nil")
    /\ calc.op = "Mod" =>
          IF calc.b = 0 THEN calc.out = Out(0, "ErrDivisionByZero")
          ELSE calc.out = Out(calc.a - calc.b * Quo(calc.a, calc.b), "nil")
C21_Witness ==
    /\ calc.op = "Div"
    /\ calc.t = [signed |-> TRUE, bits |-> Bits, named |-> TRUE]
    /\ calc.a = MinOf(calc.t) /\ calc.b = -1
    /\ calc.out = Out(MinOf(calc.t), "nil")

\* The batches' elements, in order.
RECURSIVE Flatten(_)
Flatten(bs) ==
    IF bs = <<>> THEN <<>> ELSE Elements(Head(bs)) \o Flatten(Tail(bs))

\* The batches bs partition s by size: their concatenation is s, all but
\* the last have exactly size elements and the last has 1 to size.
Partitions(bs, s, size) ==
    /\ Len(bs) >= 1
    /\ Flatten(bs) = Elements(s)
    /\ \A b \in 1..(Len(bs) - 1) : bs[b].len = size
    /\ bs[Len(bs)].len \in 1..size

\* C22 as stated: Batch(s, size) with size > 0 and s not empty returns
\* batches whose concatenation is s, all but the last of exactly size
\* elements and the last of 1 to size elements; with size <= 0 or s empty
\* it returns nil.
C22_BatchPartitions ==
    calc.op = "Batch" =>
        IF calc.size > 0 /\ calc.s.len > 0
        THEN /\ ~calc.out.panic /\ ~calc.out.nil
             /\ Partitions(calc.out.batches, calc.s, calc.size)
        ELSE calc.out.nil /\ calc.out.batches = <<>>
\* C22, what the code does keep: the same, unless len(s)+size-1 exceeds
\* the largest int and the wrapped capacity is negative; then, and only
\* then, Batch panics in make.
C22_BatchPartitionsUnlessOverflow ==
    calc.op = "Batch" =>
        IF calc.size > 0 /\ calc.s.len > 0
        THEN IF calc.out.panic
             THEN /\ calc.s.len + (calc.size - MaxInt) >= 2
                  /\ calc.out.batches = <<>>
             ELSE /\ ~calc.out.nil
                  /\ Partitions(calc.out.batches, calc.s, calc.size)
        ELSE calc.out.nil /\ calc.out.batches = <<>> /\ ~calc.out.panic
\* Batch of two elements with the largest int as size has panicked.
C22_Witness ==
    /\ calc.op = "Batch"
    /\ calc.s.len = 2 /\ calc.size = MaxInt
    /\ calc.out.panic
\* The largest size on MaxLen elements: the wrapped capacity truncates to
\* 0 and Batch returns s as one batch.
C22_WrapsToZero ==
    /\ calc.op = "Batch"
    /\ calc.s.len = MaxLen /\ calc.size = MaxInt
    /\ ~calc.out.panic
    /\ Len(calc.out.batches) = 1

\* C23: Cut(s, i, j) with 0 <= i <= j <= len(s) returns s[0..i) followed
\* by s[j..len) with a nil error, and the j-i positions of the backing
\* array behind the result hold the zero value; for any other (i, j) it
\* returns ErrIndexOutOfRange and s with its length and content unchanged.
C23_CutRemovesAndZeroes ==
    calc.op = "Cut" =>
        LET s == calc.s
            i == calc.i
            j == calc.j
            out == calc.out
        IN  IF 0 <= i /\ i <= j /\ j <= s.len
            THEN /\ out.err = "nil"
                 /\ Elements(out.s) =
                       SubSeq(s.arr, 1, i) \o SubSeq(s.arr, j + 1, s.len)
                 /\ out.s.len = s.len - (j - i)
                 /\ Cap(out.s) = Cap(s)
                 /\ \A k \in (out.s.len + 1)..s.len : out.s.arr[k] = Zero
            ELSE /\ out.err = "ErrIndexOutOfRange"
                 /\ out.s = s
C23_Witness ==
    /\ calc.op = "Cut"
    /\ calc.s.len = MaxLen /\ calc.i = 1 /\ calc.j = MaxLen - 1
    /\ \A k \in 1..MaxLen : calc.s.arr[k] # Zero
    /\ calc.out.err = "nil"
    /\ Elements(calc.out.s) = <<calc.s.arr[1], calc.s.arr[MaxLen]>>
    /\ \A k \in 3..MaxLen : calc.out.s.arr[k] = Zero

\* C24 as stated: Pick never faults; it returns ErrEmptyPicker when the
\* picker has no items, an error when the sum of the weights is zero, and
\* otherwise the item at the smallest index whose prefix sum is >= the
\* drawn x in 1..totalWeight, which is never an item of weight 0.
C24_PickNeverFaults ==
    /\ calc.op # "panic"
    /\ calc.op = "Pick" =>
          LET p == calc.p
              out == calc.out
          IN  IF Len(p.items) = 0 THEN out.err = "ErrEmptyPicker"
              ELSE IF p.totalWeight = 0 \/ out.err = "ErrReader"
              THEN out.err # "nil"
              ELSE /\ out.err = "nil"
                   /\ calc.x \in 1..p.totalWeight
                   /\ \E i \in 1..Len(p.items) :
                         /\ out.item = p.items[i]
                         /\ p.prefixSums[i] >= calc.x
                         /\ \A h \in 1..(i - 1) : p.prefixSums[h] < calc.x
                   /\ out.item.weight # 0
\* C24, what the code does keep: with non-negative weights Pick returns
\* ErrEmptyPicker on no items and otherwise, when the weights' sum is
\* positive, the random source's error with the zero item, or the item at
\* the smallest index whose prefix sum is >= x, never one of weight 0; it
\* panics exactly when there are items and the sum of their weights is
\* zero.
C24_PickUnlessZeroSum ==
    /\ calc.op = "panic" =>
          Len(calc.p.items) # 0 /\ calc.p.totalWeight = 0
    /\ calc.op = "Pick" =>
          LET p == calc.p
              out == calc.out
          IN  IF Len(p.items) = 0 THEN out.err = "ErrEmptyPicker"
              ELSE IF out.err = "ErrReader"
              THEN p.totalWeight > 0 /\ out.item = ZeroItem
              ELSE /\ p.totalWeight > 0
                   /\ out.err = "nil"
                   /\ calc.x \in 1..p.totalWeight
                   /\ \E i \in 1..Len(p.items) :
                         /\ out.item = p.items[i]
                         /\ p.prefixSums[i] >= calc.x
                         /\ \A h \in 1..(i - 1) : p.prefixSums[h] < calc.x
                   /\ out.item.weight # 0
C24_Witness ==
    /\ calc.op = "panic"
    /\ Len(calc.p.items) = MaxLen
    /\ \A i \in 1..MaxLen : calc.p.items[i].weight = 0
    /\ calc.p.totalWeight = 0

\* Goroutine p is between m.mu.Lock() and the deferred Unlock of Store,
\* Delete, LoadOrStore or LoadAndDelete; between m.mu.RLock() and RUnlock
\* of Load, Len or Range's copy.
InWrite(p) == IsRW /\ pc[p] \in {"wcs", "probed"}
InRead(p) == IsRW /\ pc[p] = "rcs"
\* Every goroutine is inside a reading critical section, one of them in
\* Range's copy phase.
ReadersTogether ==
    /\ \A p \in Procs : InRead(p)
    /\ \E p \in Procs : call[p].name = "Range"
    /\ \E p \in Procs : call[p].name # "Range"

\* C25: on the mutex backends at most one goroutine is inside the critical
\* section of a writing method, it is the one holding the exclusive lock,
\* and while it is inside no goroutine is inside the critical section of
\* Load, Len or Range's copy phase (none holds the shared lock).
C25_LockDiscipline ==
    \A p \in Procs :
        /\ InWrite(p) =>
              /\ call[p].name \in Writers
              /\ mu.writer = {p} /\ mu.readers = {}
              /\ \A q \in Procs \ {p} : ~InWrite(q) /\ ~InRead(q)
        /\ InRead(p) =>
              /\ call[p].name \in Readers
              /\ p \in mu.readers
C25_Witness ==
    \E p, q \in Procs :
        /\ InWrite(p) /\ pc[p] = "probed" /\ call[p].name = "LoadOrStore"
        /\ pc[q] = "rwait" /\ call[q].name = "Load"
        /\ q \in mu.waiting

\* The calls of the history, and the real-time order: a precedes b when a
\* had returned before b was invoked.
Ops == {o \in Procs \X (1..MaxOps) : o[2] <= Len(trail[o[1]])}
Entry(o) == trail[o[1]][o[2]]
Precedes(a, b) == Entry(b).before[a[1]] >= a[2]
\* The calls in rest can be put in a sequence that starts on the entries s,
\* respects the real-time order and gives every completed call the result
\* it returned; a call that has not returned may take effect or not.
RECURSIVE Lin(_, _)
Lin(rest, s) ==
    \/ \A o \in rest : ~Entry(o).done
    \/ \E o \in rest :
          /\ \A a \in rest \ {o} : ~Precedes(a, o)
          /\ Entry(o).done => Entry(o).r = Answer(s, Entry(o).c)
          /\ Lin(rest \ {o}, Effect(s, Entry(o).c))

\* C26: the mutex backends are linearizable: in every reachable state the
\* calls made so far returned what some sequential execution of the same
\* calls on an abstract map returns, in an order in which a call that
\* returned before another was invoked comes first.
C26_Linearizable ==
    mode = "lin" => Lin(Ops, EmptyMap)
C26_Witness ==
    \E p, q \in Procs :
        /\ mode = "lin" /\ p # q
        /\ Len(trail[p]) = 1 /\ Len(trail[q]) = 1
        /\ trail[p][1].done /\ trail[q][1].done
        /\ trail[p][1].before[q] = 0 /\ trail[q][1].before[p] = 0
        /\ trail[p][1].c.name = "LoadOrStore"
        /\ trail[q][1].c.name = "LoadOrStore"
        /\ trail[p][1].c.key = trail[q][1].c.key
        /\ trail[p][1].c.val # trail[q][1].c.val
        /\ trail[p][1].r = Ret(trail[p][1].c.val, FALSE)
        /\ trail[q][1].r = Ret(trail[p][1].c.val, TRUE)

\* Goroutine p's Range is in its callback phase: between two callbacks, or
\* inside a callback that has called Store on the same map.
InCallbacks(p) ==
    /\ IsRW /\ TopCall(p).name = "Range"
    /\ pc[p] = "iter" \/ outer[p] # NoCall

\* C27: on the mutex backends, while Range's callbacks run the goroutine
\* running Range holds no lock of Range's: it is neither among the holders
\* of the shared lock nor waiting for it, and it holds the exclusive lock
\* only inside a Store its own callback has called.
C27_CallbackWithoutLock ==
    \A p \in Procs :
        InCallbacks(p) =>
            /\ p \notin mu.readers /\ p \notin mu.waiting
            /\ p \in mu.writer => (outer[p] # NoCall /\ call[p].name = "Store")
\* A writer on another goroutine is inside its critical section while
\* Range has delivered one entry and has another to deliver.
C27_Witness ==
    \E p, q \in Procs :
        /\ InCallbacks(p) /\ pc[p] = "iter"
        /\ seen[p] # <<>> /\ todo[p] # {}
        /\ q # p /\ pc[q] = "wcs" /\ call[q].name = "Delete"
        /\ mu.writer = {q}

\* C28: on the mutex backends a goroutine that is not inside a call holds
\* no lock and waits for none, whichever path its last call returned by,
\* and the lock is free whenever no call is in progress.
C28_ReleasedOnReturn ==
    IsRW =>
        /\ \A p \in Procs :
              ~InFlight(p) =>
                  /\ p \notin mu.writer
                  /\ p \notin mu.readers
                  /\ p \notin mu.waiting
        /\ (\A p \in Procs : ~InFlight(p)) => mu = NoLock
\* The nil-tolerant variant at rest after a Range that found the map empty
\* and a LoadAndDelete that found its key absent.
C28_Witness ==
    \E p, q \in Procs :
        /\ backend = "rwmapNT" /\ mu = NoLock
        /\ \A x \in Procs : pc[x] = "done"
        /\ call[p].name = "Range" /\ call[p].fn = "all" /\ seen[p] = <<>>
        /\ call[q].name = "LoadAndDelete" /\ ret[q] = Ret(Zero, FALSE)

\* Goroutine p cannot take a step until another goroutine does: it waits
\* for the writer to unlock, for the readers to leave, or for the writer
\* mutex.
Blocked(p) ==
    \/ pc[p] = "rwait"
    \/ pc[p] = "wwait" /\ mu.readers # {}
    \/ pc[p] = "start" /\ call[p].name \in Writers /\ mu.writer # {}

\* C29: on the mutex backends, under fair scheduling, every invoked call
\* eventually returns, the goroutines are never all blocked on the lock,
\* and a writer that asks for the exclusive lock eventually holds it.
C29_Progress ==
    /\ [](IsRW => ~(\A p \in Procs : Blocked(p)))
    /\ \A p \in Procs :
          /\ InFlight(p) ~> pc[p] = "done"
          /\ (pc[p] = "start" /\ call[p].name \in Writers) ~> InWrite(p)
\* A writer holds the writer mutex and waits for a reader to leave.
C29_Witness ==
    \E p, q \in Procs :
        /\ IsRW /\ pc[p] = "wwait" /\ mu.writer = {p}
        /\ pc[q] = "rcs" /\ q \in mu.readers

\* What goroutine p's LoadAndDelete(RaceKey) returned, once it has.
Took(p) == IF p = Caller THEN trail[p][4].r ELSE trail[p][1].r
Taken(p) == Round(p) >= (IF p = Caller THEN 4 ELSE 1)
\* The value RaceKey held when the race began.
Prize == trail[Caller][3].pre[RaceKey]

\* C30: when all goroutines have called LoadAndDelete(k) on a key present
\* with value e, exactly one call returned (e, true) and every other one
\* (zero, false), on every backend; the Len() after them is the Len()
\* before them less 1, and Load(k) finds k absent.
C30_OneTakes ==
    mode = "race" =>
        /\ (\A p \in Procs : Taken(p)) =>
              /\ Cardinality({p \in Procs : Took(p) = Ret(Prize, TRUE)}) = 1
              /\ \A p \in Procs :
                    Took(p) \in {Ret(Prize, TRUE), Ret(Zero, FALSE)}
              /\ Cardinality({p \in Procs : Took(p).ok}) = 1
              /\ RaceKey \notin DOMAIN store
        /\ Round(Caller) >= 5 =>
              trail[Caller][5].r.val = trail[Caller][3].r.val - 1
        /\ Round(Caller) = 6 => trail[Caller][6].r = Ret(Zero, FALSE)
\* The race on a map of two keys, won by a goroutine other than the one
\* that stored the key, for a value that is not the zero value.
C30_Witness ==
    /\ mode = "race" /\ Round(Caller) = 6
    /\ \A p \in Procs : Taken(p)
    /\ Prize # Zero
    /\ Took(Caller) = Ret(Zero, FALSE)
    /\ trail[Caller][3].r = Ret(2, TRUE)
    /\ trail[Caller][5].r = Ret(1, TRUE)

\* Goroutine p runs, or has just finished, a Range of syncmap.
InSweep(p) ==
    /\ mode = "sweep" /\ call[p].name = "Range"
    /\ pc[p] \notin {"idle", "panic"}

\* C31: syncmap: within one Range call no key is delivered twice, and
\* every delivered (key, value) pair was the mapping of its key in the map
\* at some instant between the start and the end of that call.
C31_RangeWeak ==
    \A p \in Procs : InSweep(p) =>
        /\ OncePerKey(seen[p])
        /\ SeqSet(seen[p]) \subseteq lenObs[p].pairs
\* A finished Range that delivered two pairs which the map held at no
\* single instant of the call.
C31_Witness ==
    \E p \in Procs :
        /\ InSweep(p) /\ pc[p] = "done" /\ call[p].fn = "all"
        /\ Len(seen[p]) = 2
        /\ \A c \in lenObs[p].contents : ~(SeqSet(seen[p]) \subseteq c)

\* The calls made on key k.
OpsOn(k) == {o \in Ops : Entry(o).c.key = k}
\* The calls in rest, all on key k, can be put in a sequence that starts on
\* the entries s, respects the real-time order, gives every completed call
\* the result it returned and ends with k as the map now has it; a call
\* that has not returned may have taken effect or not.
RECURSIVE LinKey(_, _, _)
LinKey(rest, s, k) ==
    \/ /\ \A o \in rest : ~Entry(o).done
       /\ Get(s, k) = Get(store, k)
    \/ \E o \in rest :
          /\ \A a \in rest \ {o} : ~Precedes(a, o)
          /\ Entry(o).done => Entry(o).r = Answer(s, Entry(o).c)
          /\ LinKey(rest \ {o}, Effect(s, Entry(o).c), k)

\* C32: syncmap: for every key k, the Load, Store, LoadOrStore,
\* LoadAndDelete and Delete calls made on k returned what some sequential
\* ordering of those calls returns, an ordering that respects real-time
\* order and leaves k present or absent, with the value, as the map has it.
C32_PerKeyAtomic ==
    (mode = "lin" /\ backend = "syncmap") =>
        \A k \in Keys : LinKey(OpsOn(k), EmptyMap, k)
\* A Store and a LoadAndDelete on one key that overlapped, the second
\* returning the value the first stored, while a call on the other key was
\* made as well.
C32_Witness ==
    \E p, q \in Procs :
        /\ mode = "lin" /\ backend = "syncmap" /\ p # q
        /\ Len(trail[p]) >= 1 /\ Len(trail[q]) >= 1
        /\ trail[p][1].done /\ trail[q][1].done
        /\ trail[p][1].before[q] = 0 /\ trail[q][1].before[p] = 0
        /\ trail[p][1].c.name = "Store"
        /\ trail[q][1].c.name = "LoadAndDelete"
        /\ trail[p][1].c.key = trail[q][1].c.key
        /\ trail[q][1].r = Ret(trail[p][1].c.val, TRUE)
        /\ trail[p][1].c.key \notin DOMAIN store
        /\ \E o \in Ops : Entry(o).done /\ Entry(o).c.key # trail[p][1].c.key

\* Goroutine p has called Range with a nil callback on a non-nil map.
NilRange(p) ==
    /\ ~mnil /\ pc[p] # "idle"
    /\ call[p].name = "Range" /\ call[p].fn = "nil"

\* C33: Range with a nil callback on a non-nil map never faults, whatever
\* the map contains.
C33_NilRangeNeverFaults ==
    \A p \in Procs : NilRange(p) => pc[p] # "panic"
\* syncmap: Range with a nil callback has panicked on a map with an entry.
C33_Witness ==
    \E p \in Procs :
        /\ NilRange(p) /\ backend = "syncmap"
        /\ store # EmptyMap
        /\ pc[p] = "panic"
\* What the code does: the mutex backends return at once, without the
\* lock, invoking nothing and leaving the entries as they are; syncmap
\* does so on an empty map and faults on any other.
C33_NilRangeMutexOnly ==
    [][\A p \in Procs : (NilRange(p) /\ pc[p] = "start") =>
          /\ store' = store /\ seen'[p] = <<>>
          /\ IsRW => (pc'[p] = "done" /\ mu' = mu)
          /\ pc'[p] = "panic" => store # EmptyMap
          /\ (~IsRW /\ store # EmptyMap) => pc'[p] \in {"iter", "panic"}]_vars

\* Len() as returned before the caller's i-th call: by the Len call made
\* just before it, 0 on the new map.
LenBefore(i) == IF i = 1 THEN 0 ELSE Log[i - 1].r.val

\* C34: on every backend a Store, LoadOrStore, LoadAndDelete or Delete on
\* key k leaves the presence and the value of every other key as they
\* were, and the Len() after it differs from the Len() before it by at
\* most 1.
C34_OtherKeysUntouched ==
    mode = "log" =>
        \A i \in 1..(Len(Log) - 1) :
            Mutating(Log[i].c) =>
                /\ \A k \in Keys \ {Log[i].c.key} :
                      Get(Log[i + 1].pre, k) = Get(Log[i].pre, k)
                /\ Log[i + 1].c.name = "Len"
                /\ Log[i + 1].r.val - LenBefore(i) \in {-1, 0, 1}
\* Two keys stored, then one of them removed: the other key keeps its
\* value and Len() goes 1, 2, 1.
C34_Witness ==
    /\ mode = "log" /\ Len(Log) = 6
    /\ Log[1].c.name = "Store" /\ Log[1].c.val # Zero
    /\ Log[3].c.name = "LoadOrStore" /\ Log[3].c.key # Log[1].c.key
    /\ Log[5].c.name = "LoadAndDelete" /\ Log[5].c.key = Log[3].c.key
    /\ Log[2].r.val = 1 /\ Log[4].r.val = 2 /\ Log[6].r.val = 1
    /\ Get(store, Log[1].c.key) = Ret(Log[1].c.val, TRUE)

\* Load, Len, and Range with a callback that does not call the map.
ReadOnly(c) ==
    \/ c.name \in {"Load", "Len"}
    \/ c.name = "Range" /\ c.fn \in {"all", "stop"}

\* C35: on every backend Load, Len and Range (with a callback that does
\* not call back into the map) are read-only: no step of such a call
\* changes the stored (key, value) pairs, so they are the same after the
\* call as before it, and the Len() after it is the Len() before it.
C35_ReadOnly ==
    [][(mode = "seq" /\ ~mnil /\ ReadOnly(call'[Caller])) =>
          /\ Pairs(store') = Pairs(store)
          /\ (Len(trail') = 3 /\ ReadOnly(trail'[2].c)) =>
                /\ trail'[3].r = trail'[1].r
                /\ trail'[3].pre = trail'[1].pre]_vars
\* A Range that stopped early on a full map, between two Len() calls that
\* agree; and the entries are those recorded before it.
C35_Witness ==
    /\ mode = "seq" /\ ~mnil /\ Len(trail) = 3
    /\ pc[Caller] = "done"
    /\ trail[2].c.name = "Range" /\ trail[2].c.fn = "stop"
    /\ trail[1].r = Ret(NumKeys, TRUE) /\ trail[3].r = Ret(NumKeys, TRUE)
    /\ Len(seen[Caller]) < NumKeys
    /\ store = trail[1].pre

\* C36: on a nil map reference of syncmap and of the nil-tolerant variant,
\* every LoadOrStore(k, v), whoever calls it and whatever ran before or
\* beside it, returns (v, false) and stores nothing; a following Load(k)
\* returns (zero, false) and Len() returns 0.
C36_NilLoadOrStore ==
    (mode = "race" /\ mnil /\ backend # "rwmap") =>
        /\ NoPanic
        /\ store = EmptyMap
        /\ \A p \in Procs : \A i \in 1..Len(trail[p]) :
              LET e == trail[p][i]
              IN  /\ e.c.name = "LoadOrStore" => e.r = Ret(e.c.val, FALSE)
                  /\ e.c.name = "Load" => e.r = Ret(Zero, FALSE)
                  /\ e.c.name = "Len" => e.r.val = 0
\* Two goroutines each called LoadOrStore on one key, with different
\* values, twice: all four calls returned the caller's own value with
\* loaded=false; Load of that key found nothing and Len() was 0.
C36_Witness ==
    \E p, q \in Procs : \E k \in Keys :
        /\ mode = "race" /\ mnil /\ p # q
        /\ Len(trail[p]) = 4 /\ Len(trail[q]) = 4
        /\ \A i \in {1, 2} :
              /\ trail[p][i].c.key = k /\ trail[q][i].c.key = k
              /\ trail[p][i].r = Ret(trail[p][1].c.val, FALSE)
              /\ trail[q][i].r = Ret(trail[q][1].c.val, FALSE)
        /\ trail[p][1].c.val # trail[q][1].c.val
        /\ trail[p][3].c.key = k /\ trail[p][3].r = Ret(Zero, FALSE)
        /\ trail[p][4].r = Ret(0, TRUE)

\* A Store or LoadOrStore is among the caller's completed calls.
Created == \E i \in 1..Len(Log) : Log[i].c.name \in {"Store", "LoadOrStore"}
\* The caller is inside a Store or LoadOrStore, holding the exclusive lock.
Creating ==
    /\ call[Caller].name \in {"Store", "LoadOrStore"}
    /\ mu.writer = {Caller}

\* C37: the nil-tolerant mutex backend, started with a nil inner store,
\* answers every call as a map that started empty does (Load and
\* LoadAndDelete (zero, false), Len 0, Range no callback, until something
\* is stored); the store stays nil through Load, LoadAndDelete, Delete,
\* Len and Range and is created only by Store and LoadOrStore, under the
\* exclusive lock, after which the written key is found by Load.
C37_NilStoreIsEmpty ==
    (mode = "log" /\ backend = "rwmapNT") =>
        /\ \A i \in 1..Len(Log) : Log[i].r = Answer(Replay(i - 1), Log[i].c)
        /\ storeNil => (store = EmptyMap /\ seen[Caller] = <<>>)
        /\ storeNil => ~Created
        /\ ~storeNil => (Created \/ Creating)
        /\ pc[Caller] = "done" => store = Replay(Len(Log))
\* Load, LoadAndDelete, Delete and Range on the nil store, which is still
\* nil after them.
C37_Witness ==
    /\ mode = "log" /\ backend = "rwmapNT" /\ storeNil
    /\ Len(Log) = 6
    /\ Log[1].c.name = "LoadAndDelete" /\ Log[1].r = Ret(Zero, FALSE)
    /\ Log[3].c.name = "Delete"
    /\ Log[5].c.name = "Range"
    /\ \A i \in {2, 4, 6} : Log[i].r = Ret(0, TRUE)
\* Store on the nil store, then Load of the key: found with the value
\* written.
C37_Found ==
    /\ mode = "log" /\ backend = "rwmapNT" /\ ~storeNil
    /\ Len(Log) >= 5
    /\ Log[1].c.name = "Load" /\ Log[1].r = Ret(Zero, FALSE)
    /\ Log[3].c.name = "Store" /\ Log[3].c.val # Zero
    /\ Log[5].c.name = "Load" /\ Log[5].c.key = Log[3].c.key
    /\ Log[5].r = Ret(Log[3].c.val, TRUE)

====
